---- MODULE Spec2Model ----
(***************************************************************************)
(* Model of the HR question router of src/rag_engine.py (retrieve_context  *)
(* and employee_field_response) with its process-wide conversation pointer *)
(* last_employee.  Questions, answers and the loaded records are the       *)
(* program's own strings; the string primitives of Python that the router  *)
(* uses (lower, strip, split, isdigit, int, "in", re.search, re.fullmatch, *)
(* strptime) are operators over those strings.                             *)
(***************************************************************************)
EXTENDS Integers, Sequences, FiniteSets, TLC

VARIABLES
    employee_df,    \* the employee table, rows in load order
    holiday_data,   \* the holiday records, in load order
    last_employee,  \* the conversation pointer: 0 (None) or a row number
    question,       \* the question of the latest call ("" before any call)
    result,         \* what the latest call returned or raised
    answered_by,    \* the router step whose return ended the latest call (0: none)
    matched,        \* the row the latest call's ID or name step matched, else 0
    today_read,     \* what datetime.today() gave the latest call, 0 if it did not ask
    session,        \* the session that sent the latest question
    resolved,       \* the row matched by the most recent call that matched one (0: none)
    prev,           \* the resolution made by the call before the latest one
    prev2,          \* the resolution made by the call before that
    mentioned,      \* per session, the rows its own questions resolved
    own,            \* per session, the row its own latest resolution matched
    found,          \* the chunks the similarity search gave the latest call (<< >>: none)
    answer,         \* what /ask gave the latest request: its answer or the error raised
    llm_calls,      \* how many times the latest request called the language model
    llm_args,       \* the arguments of the latest request's model call (NoRequest: none)
    generated,      \* what the model call gave the latest request (NoGeneration: no call)
    conversations,  \* tax chatbot: session_id -> its history, a list of messages
    user_profiles,  \* tax chatbot: session_id -> profile (nothing stores one)
    request,        \* tax chatbot: the latest request
    response,       \* tax chatbot: what the latest request returned
    prompt_sent,    \* tax chatbot: the prompt the latest request sent to the model ("": none)
    gemini,         \* tax chatbot: what generate_content gave the latest request
    chats,          \* tax chatbot: how many chat requests were made
    posted          \* per session, the user messages chatted since it was last cleared

\* the state of the HR assistant (rag_engine.py, app.py)
hrVars == <<employee_df, holiday_data, last_employee, question, result, answered_by,
            matched, today_read, session, resolved, prev, prev2, mentioned, own,
            found, answer, llm_calls, llm_args, generated>>

\* the state of the tax chatbot (backend/main.py)
chatVars == <<conversations, user_profiles, request, response, prompt_sent, gemini,
              chats, posted>>

vars == <<hrVars, chatVars>>

-----------------------------------------------------------------------------
(* Bounds of the model.                                                    *)

MaxEmployees == 3
MaxHolidays == 4
MaxDays == 3
TicksPerDay == 2
MaxSessions == 2
MaxChats == 6
MaxIncomeSteps == 24
IncomeStep == 50000

-----------------------------------------------------------------------------
(* Python string primitives.                                               *)

Char(s, i) == SubSeq(s, i, i)

Rest(s) == SubSeq(s, 2, Len(s))

UpperCase == "ABCDEFGHIJKLMNOPQRSTUVWXYZ"
LowerCase == "abcdefghijklmnopqrstuvwxyz"
AsciiDigits == "0123456789"

\* characters str.isdigit accepts and int() rejects (superscript digits)
SuperscriptDigits == {"²", "³"}

WhitespaceChars == {" ", "\t", "\n"}

CharsOf(alphabet) == {Char(alphabet, i) : i \in 1..Len(alphabet)}

\* str.lower() on one character: A..Z map to a..z
LowerMap ==
    [c \in CharsOf(UpperCase) |->
        Char(LowerCase, CHOOSE i \in 1..Len(UpperCase) : Char(UpperCase, i) = c)]

\* the value of a decimal digit
DigitValue ==
    [c \in CharsOf(AsciiDigits) |->
        (CHOOSE i \in 1..Len(AsciiDigits) : Char(AsciiDigits, i) = c) - 1]

IsAsciiDigit(c) == c \in DOMAIN DigitValue

\* the characters of a regular-expression word (\w)
WordChars ==
    CharsOf(LowerCase) \cup CharsOf(UpperCase) \cup CharsOf(AsciiDigits)
        \cup {"_"} \cup SuperscriptDigits

IsWordChar(c) == c \in WordChars

LowerChar(c) == IF c \in DOMAIN LowerMap THEN LowerMap[c] ELSE c

RECURSIVE lower(_)
lower(s) == IF s = "" THEN "" ELSE LowerChar(Char(s, 1)) \o lower(Rest(s))

RECURSIVE lstrip(_)
lstrip(s) ==
    IF s # "" /\ Char(s, 1) \in WhitespaceChars THEN lstrip(Rest(s)) ELSE s

RECURSIVE rstrip(_)
rstrip(s) ==
    IF s # "" /\ Char(s, Len(s)) \in WhitespaceChars
    THEN rstrip(SubSeq(s, 1, Len(s) - 1))
    ELSE s

strip(s) == rstrip(lstrip(s))

\* w occupies positions i.. of q
StartsAt(q, i, w) == i + Len(w) - 1 <= Len(q) /\ SubSeq(q, i, i + Len(w) - 1) = w

\* Python's  w in q
Contains(q, w) == \E i \in 1..(Len(q) - Len(w) + 1) : StartsAt(q, i, w)

\* the end of the run of non-whitespace characters that starts at i
RECURSIVE TokenEnd(_, _)
TokenEnd(s, i) ==
    IF i <= Len(s) /\ Char(s, i) \notin WhitespaceChars THEN TokenEnd(s, i + 1) ELSE i - 1

\* str.split(): the maximal runs of non-whitespace characters, in order
RECURSIVE SplitFrom(_, _)
SplitFrom(s, i) ==
    IF i > Len(s) THEN << >>
    ELSE IF Char(s, i) \in WhitespaceChars THEN SplitFrom(s, i + 1)
    ELSE <<SubSeq(s, i, TokenEnd(s, i))>> \o SplitFrom(s, TokenEnd(s, i) + 1)

split(s) == SplitFrom(s, 1)

\* str.isdigit(): non-empty and every character is a digit character
isdigit(w) ==
    /\ w # ""
    /\ \A i \in 1..Len(w) : IsAsciiDigit(Char(w, i)) \/ Char(w, i) \in SuperscriptDigits

\* int(w) succeeds on decimal digits only; on a superscript digit it raises ValueError
IntParses(w) == w # "" /\ \A i \in 1..Len(w) : IsAsciiDigit(Char(w, i))

RECURSIVE IntOf(_)
IntOf(w) ==
    IF w = "" THEN 0
    ELSE IntOf(SubSeq(w, 1, Len(w) - 1)) * 10 + DigitValue[Char(w, Len(w))]

-----------------------------------------------------------------------------
(* The regular expressions of the router.                                  *)

\* alternatives of the salary pattern, in the order the pattern lists them
ComparisonPhrases == <<"greater than", "more than", "above", "less than", "below", ">", "<">>

GreaterPhrases == {"greater than", "more than", "above", ">"}

RECURSIVE SkipSpaces(_, _)
SkipSpaces(s, i) ==
    IF i <= Len(s) /\ Char(s, i) \in WhitespaceChars THEN SkipSpaces(s, i + 1) ELSE i

RECURSIVE DigitsEnd(_, _)
DigitsEnd(s, i) ==
    IF i <= Len(s) /\ IsAsciiDigit(Char(s, i)) THEN DigitsEnd(s, i + 1) ELSE i - 1

\* (phrase)\s*(\d+) anchored at position i, with alternative k
PhraseMatchesAt(q, i, k) ==
    LET p == ComparisonPhrases[k]
        j == SkipSpaces(q, i + Len(p))
    IN  /\ StartsAt(q, i, p)
        /\ DigitsEnd(q, j) >= j

MatchesAt(q, i) == \E k \in 1..Len(ComparisonPhrases) : PhraseMatchesAt(q, i, k)

\* re.search(r"(greater than|more than|above|less than|below|>|<)\s*(\d+)", q):
\* the leftmost position that matches, the first alternative there, the digits greedy
salary_match(q) ==
    IF \E i \in 1..Len(q) : MatchesAt(q, i)
    THEN LET i == CHOOSE i \in 1..Len(q) :
                    MatchesAt(q, i) /\ \A h \in 1..(i - 1) : ~MatchesAt(q, h)
             k == CHOOSE k \in 1..Len(ComparisonPhrases) :
                    PhraseMatchesAt(q, i, k) /\ \A h \in 1..(k - 1) : ~PhraseMatchesAt(q, i, h)
             j == SkipSpaces(q, i + Len(ComparisonPhrases[k]))
         IN  [ok |-> TRUE, condition |-> ComparisonPhrases[k],
              digits |-> SubSeq(q, j, DigitsEnd(q, j))]
    ELSE [ok |-> FALSE, condition |-> "", digits |-> ""]

\* \b between the characters at positions pos - 1 and pos
WordBoundary(q, pos) ==
    LET before == pos > 1 /\ IsWordChar(Char(q, pos - 1))
        after == pos <= Len(q) /\ IsWordChar(Char(q, pos))
    IN  before # after

\* re.search(r"\b" + re.escape(name) + r"\b", q)
WholeWordSearch(name, q) ==
    \E i \in 1..(Len(q) - Len(name) + 1) :
        /\ StartsAt(q, i, name)
        /\ WordBoundary(q, i)
        /\ WordBoundary(q, i + Len(name))

\* re.match in place of re.fullmatch: the phrase as a prefix
EmployeeCountPrefix(q) == StartsAt(q, 1, "how many employees")

\* re.fullmatch(r"how many employees\??", q)
EmployeeCountMatch(q) == q = "how many employees" \/ q = "how many employees?"

-----------------------------------------------------------------------------
(* Dates: datetime.strptime(date, "%d-%b-%y") and datetime.today().  An    *)
(* instant is a day ordinal and a tick of that day; tick 0 is midnight.    *)

MonthNames == <<"jan", "feb", "mar", "apr", "may", "jun",
                "jul", "aug", "sep", "oct", "nov", "dec">>

DaysBeforeMonth == <<0, 31, 59, 90, 120, 151, 181, 212, 243, 273, 304, 334>>

IsLeap(y) == y % 4 = 0 /\ (y % 100 # 0 \/ y % 400 = 0)

\* date.toordinal(): days since 0001-01-01, counting that day as 1
Ordinal(y, m, d) ==
    LET p == y - 1
    IN  p * 365 + (p \div 4) - (p \div 100) + (p \div 400)
        + DaysBeforeMonth[m] + (IF m > 2 /\ IsLeap(y) THEN 1 ELSE 0) + d

\* position of the first "-" at or after i, or Len(s) + 1
RECURSIVE DashFrom(_, _)
DashFrom(s, i) == IF i <= Len(s) /\ Char(s, i) # "-" THEN DashFrom(s, i + 1) ELSE i

\* %y: two digits, 69..99 in the 1900s and 00..68 in the 2000s
CenturyYear(yy) == IF yy >= 69 THEN 1900 + yy ELSE 2000 + yy

\* strptime(date, "%d-%b-%y"): midnight of that day
strptime(date) ==
    LET d1 == DashFrom(date, 1)
        d2 == DashFrom(date, d1 + 1)
        dd == IntOf(SubSeq(date, 1, d1 - 1))
        mon == lower(SubSeq(date, d1 + 1, d2 - 1))
        mm == CHOOSE m \in 1..12 : MonthNames[m] = mon
        yy == IntOf(SubSeq(date, d2 + 1, Len(date)))
    IN  Ordinal(CenturyYear(yy), mm, dd) * TicksPerDay

-----------------------------------------------------------------------------
(* The data loaded at import: data/employees.csv and data/holidays.json.   *)

Roster == <<
    [Emp_ID |-> 101, Emp_Name |-> "Asha Rao", Age |-> 31, Gender |-> "Female",
     Salary |-> 50000, Designation |-> "Engineer", Email |-> "asha@corp.in",
     Phone_Number |-> "9000000101", Experience_Years |-> 7],
    [Emp_ID |-> 102, Emp_Name |-> "Ravi", Age |-> 45, Gender |-> "Male",
     Salary |-> 60000, Designation |-> "Manager", Email |-> "ravi@corp.in",
     Phone_Number |-> "9000000102", Experience_Years |-> 20],
    [Emp_ID |-> 103, Emp_Name |-> "Ravi Kumar", Age |-> 28, Gender |-> "Male",
     Salary |-> 50000, Designation |-> "Analyst", Email |-> "rkumar@corp.in",
     Phone_Number |-> "9000000103", Experience_Years |-> 4],
    [Emp_ID |-> 104, Emp_Name |-> "Meena Iyer", Age |-> 39, Gender |-> "Female",
     Salary |-> 70000, Designation |-> "Director", Email |-> "meena@corp.in",
     Phone_Number |-> "9000000104", Experience_Years |-> 15] >>

Calendar == <<
    [occasion |-> "Diwali", date |-> "08-Nov-26", day |-> "Sunday"],
    [occasion |-> "Republic Day", date |-> "26-Jan-26", day |-> "Monday"],
    [occasion |-> "Founders Day", date |-> "08-Nov-26", day |-> "Sunday"],
    [occasion |-> "Holi (Dhuleti)", date |-> "04-Mar-26", day |-> "Wednesday"],
    [occasion |-> "Christmas", date |-> "25-Dec-26", day |-> "Friday"] >>

\* the first day the clock shows
ClockStart == "07-Nov-26"

\* page_content of the chunks in the policy index
PolicyChunks == {"Leave: 12 days a year.", "Working hours: 9 to 6."}

\* k of similarity_search(question, k=2)
TopK == 2

\* what similarity_search can return: at most k chunks, ranked by the index
SearchOutcomes ==
    {<< >>} \cup {<<c>> : c \in PolicyChunks}
    \cup {p \in PolicyChunks \X PolicyChunks : p[1] # p[2]}

-----------------------------------------------------------------------------
(* Values a call of the router ends with.                                  *)

Str(text) == [kind |-> "str", text |-> text]

NoneResult == [kind |-> "None", text |-> ""]

Raised(error) == [kind |-> "raise", text |-> error]

NoCall == [kind |-> "init", text |-> ""]

NoAnswer == "Information not available."

\* what a call leaves behind: its return value, the pointer after it, the step
\* that returned (0: none did), the row its ID or name step matched, and the
\* clock reading it took (0: it took none)
Outcome(res, pointer, step, row) ==
    [result |-> res, last_employee |-> pointer, answered_by |-> step, matched |-> row,
     today |-> 0]

RECURSIVE Join(_, _)
Join(lines, sep) ==
    IF lines = << >> THEN ""
    ELSE IF Len(lines) = 1 THEN lines[1]
    ELSE lines[1] \o sep \o Join(Tail(lines), sep)

-----------------------------------------------------------------------------
(* employee_field_response                                                 *)

\* a formatter that tests for the email keyword first
employee_field_response_email_first(row, q) ==
    IF Contains(q, "email") THEN row.Emp_Name \o "'s email is " \o row.Email \o "."
    ELSE IF Contains(q, "salary") THEN
        row.Emp_Name \o "'s salary is " \o ToString(row.Salary) \o "."
    ELSE NoAnswer

employee_field_response(row, q) ==
    IF Contains(q, "age") THEN
        row.Emp_Name \o " is " \o ToString(row.Age) \o " years old."
    ELSE IF Contains(q, "gender") THEN
        row.Emp_Name \o " is " \o row.Gender \o "."
    ELSE IF Contains(q, "salary") THEN
        row.Emp_Name \o "'s salary is " \o ToString(row.Salary) \o "."
    ELSE IF Contains(q, "designation") THEN
        row.Emp_Name \o " works as " \o row.Designation \o "."
    ELSE IF Contains(q, "email") THEN
        row.Emp_Name \o "'s email is " \o row.Email \o "."
    ELSE IF Contains(q, "phone") THEN
        row.Emp_Name \o "'s phone number is " \o row.Phone_Number \o "."
    ELSE IF Contains(q, "experience") THEN
        row.Emp_Name \o " has " \o ToString(row.Experience_Years) \o " years of experience."
    ELSE IF Contains(q, "details") \/ Contains(q, "who is") THEN
        row.Emp_Name \o " is a " \o row.Designation \o " with "
            \o ToString(row.Experience_Years) \o " years of experience. "
            \o "Salary: " \o ToString(row.Salary) \o "."
    ELSE NoAnswer

-----------------------------------------------------------------------------
(* The steps of retrieve_context.                                          *)

\* step 1: the rows the comparison keeps, in table order
\* a filter that also keeps a salary equal to the amount
salary_filter_inclusive(emps, condition, amount) ==
    IF condition \in GreaterPhrases
    THEN SelectSeq(emps, LAMBDA row : row.Salary >= amount)
    ELSE SelectSeq(emps, LAMBDA row : row.Salary <= amount)

salary_filter(emps, condition, amount) ==
    IF condition \in GreaterPhrases
    THEN SelectSeq(emps, LAMBDA row : row.Salary > amount)
    ELSE SelectSeq(emps, LAMBDA row : row.Salary < amount)

SalaryLine(row) == row.Emp_Name \o " - " \o ToString(row.Salary)

SalaryLines(rows) == [i \in 1..Len(rows) |-> SalaryLine(rows[i])]

salary_step(q, sm, emps, pointer) ==
    LET filtered == salary_filter(emps, sm.condition, IntOf(sm.digits))
    IN  IF Contains(q, "list")
        THEN IF filtered = << >>
             THEN Outcome(Str("No employees found."), pointer, 1, 0)
             ELSE Outcome(Str("Employees matching salary condition:\n"
                              \o Join(SalaryLines(filtered), "\n")), pointer, 1, 0)
        ELSE Outcome(Str(ToString(Len(filtered)) \o " employees match the salary condition."),
                     pointer, 1, 0)

\* a router in which the holiday-list step comes before the count
holiday_count_step_lists(hols, pointer) ==
    Outcome(Str("Here are the company holidays:"), pointer, 3, 0)

\* step 2
holiday_count_step(hols, pointer) ==
    Outcome(Str("There are " \o ToString(Len(hols)) \o " holidays in 2026."), pointer, 2, 0)

HolidayLine(h) == h.occasion \o " - " \o h.date \o " (" \o h.day \o ")"

HolidayLines(hols) == [i \in 1..Len(hols) |-> HolidayLine(hols[i])]

\* step 3
holiday_list_step(hols, pointer) ==
    Outcome(Str("Here are the company holidays:\n" \o Join(HolidayLines(hols), "\n")),
            pointer, 3, 0)

\* step 4, the test of one holiday against the candidate kept so far
replaces_upcoming(h_date, today, upcoming_date) ==
    h_date >= today /\ (upcoming_date = -1 \/ h_date < upcoming_date)

\* step 4, the scan: the holiday kept after records i.. (0: none), -1 is no date yet
RECURSIVE upcoming_scan(_, _, _, _)
upcoming_scan(hols, i, today, upcoming) ==
    IF i > Len(hols) THEN upcoming
    ELSE LET h_date == strptime(hols[i].date)
             upcoming_date == IF upcoming = 0 THEN -1 ELSE strptime(hols[upcoming].date)
         IN  IF replaces_upcoming(h_date, today, upcoming_date)
             THEN upcoming_scan(hols, i + 1, today, i)
             ELSE upcoming_scan(hols, i + 1, today, upcoming)

upcoming_step(h, pointer) ==
    Outcome(Str("Upcoming holiday is " \o h.occasion \o " on " \o h.date
                \o " (" \o h.day \o ")."), pointer, 4, 0)

\* step 5: the first holiday in load order whose name is a whole word of q (0: none)
named_holiday(hols, q) ==
    IF \E i \in 1..Len(hols) : WholeWordSearch(lower(hols[i].occasion), q)
    THEN CHOOSE i \in 1..Len(hols) :
            /\ WholeWordSearch(lower(hols[i].occasion), q)
            /\ \A j \in 1..(i - 1) : ~WholeWordSearch(lower(hols[j].occasion), q)
    ELSE 0

\* a router that sends a question naming a holiday to the policy search
named_holiday_step_searches(h, pointer) == Outcome(NoneResult, pointer, 10, 0)

named_holiday_step(h, pointer) ==
    Outcome(Str(h.occasion \o " is on " \o h.date \o " (" \o h.day \o ")."), pointer, 5, 0)

\* step 6
employee_count_step(emps, pointer) ==
    Outcome(Str("There are " \o ToString(Len(emps)) \o " employees."), pointer, 6, 0)

\* emp.iloc[0] of employee_df[employee_df["Emp_ID"] == id]: the first such row (0: empty)
row_with_id(emps, id) ==
    IF \E i \in 1..Len(emps) : emps[i].Emp_ID = id
    THEN CHOOSE i \in 1..Len(emps) :
            emps[i].Emp_ID = id /\ \A j \in 1..(i - 1) : emps[j].Emp_ID # id
    ELSE 0

\* step 7, the loop over q.split(): a hit, the ValueError of int(word), or no hit
RECURSIVE id_scan(_, _)
id_scan(words, emps) ==
    IF words = << >> THEN [kind |-> "none", row |-> 0]
    ELSE IF ~isdigit(Head(words)) THEN id_scan(Tail(words), emps)
    ELSE IF ~IntParses(Head(words)) THEN [kind |-> "raise", row |-> 0]
    ELSE IF row_with_id(emps, IntOf(Head(words))) # 0
         THEN [kind |-> "hit", row |-> row_with_id(emps, IntOf(Head(words)))]
    ELSE id_scan(Tail(words), emps)

\* a slip: the pointer is written only while it is empty
id_step_first_write(row, q, emps, pointer) ==
    LET kept == IF pointer = 0 THEN row ELSE pointer
    IN  Outcome(Str(employee_field_response(emps[kept], q)), kept, 7, row)

\* a slip: the answer is given but the pointer is not written
id_step_no_write(row, q, emps, pointer) ==
    Outcome(Str(employee_field_response(emps[row], q)), pointer, 7, row)

\* a router that can be suspended between its write and its read-back: the
\* answer is about whatever another request left in the slot
id_step_reads_stale(row, q, emps, pointer) ==
    LET read == IF pointer # 0 THEN pointer ELSE row
    IN  Outcome(Str(employee_field_response(emps[read], q)), row, 7, row)

\* a slip: the pointer is written only when the formatter has a field to give
id_step_sets_on_answer(row, q, emps, pointer) ==
    LET text == employee_field_response(emps[row], q)
    IN  Outcome(Str(text), IF text = NoAnswer THEN pointer ELSE row, 7, row)

\* step 7 on a hit: the pointer (whatever it held) is overwritten with the row,
\* then read back for the answer
id_step(row, q, emps, pointer) ==
    Outcome(Str(employee_field_response(emps[row], q)), row, 7, row)

\* a name step that prefers the longest name found in q
named_employee_longest(emps, q) ==
    LET hits == {i \in 1..Len(emps) : Contains(q, lower(emps[i].Emp_Name))}
    IN  IF hits = {} THEN 0
        ELSE CHOOSE i \in hits :
                \A j \in hits : Len(emps[j].Emp_Name) <= Len(emps[i].Emp_Name)

\* step 8: the first row in load order whose lowercased name is in q (0: none)
named_employee(emps, q) ==
    IF \E i \in 1..Len(emps) : Contains(q, lower(emps[i].Emp_Name))
    THEN CHOOSE i \in 1..Len(emps) :
            /\ Contains(q, lower(emps[i].Emp_Name))
            /\ \A j \in 1..(i - 1) : ~Contains(q, lower(emps[j].Emp_Name))
    ELSE 0

\* step 8 on a hit: the pointer (whatever it held) is overwritten with the row
name_step(row, q, emps, pointer) ==
    Outcome(Str(employee_field_response(emps[row], q)), row, 8, row)

Pronouns == {"his", "her", "him", "he", "she"}

\* a slip: the follow-up consumes the pointer
pronoun_step_clears(pointer, q, emps) ==
    Outcome(Str(employee_field_response(emps[pointer], q)), 0, 9, 0)

\* step 9
pronoun_step(pointer, q, emps) ==
    Outcome(Str(employee_field_response(emps[pointer], q)), pointer, 9, 0)

PolicyWords == {"policy", "leave", "break", "working hours", "attendance"}

\* a slip: a policy question starts a new conversation
policy_step_resets(docs, pointer) ==
    LET context == Join(docs, "\n")
    IN  Outcome(IF context # "" THEN Str("RAG::" \o context) ELSE NoneResult, 0, 10, 0)

\* a policy step that tags whatever the search gave, nothing included
policy_step_bare_tag(docs, pointer) ==
    Outcome(Str("RAG::" \o Join(docs, "\n")), pointer, 10, 0)

\* step 10: docs is what similarity_search(question, k=2) returned
policy_step(docs, pointer) ==
    LET context == Join(docs, "\n")
    IN  Outcome(IF context # "" THEN Str("RAG::" \o context) ELSE NoneResult, pointer, 10, 0)

\* step 11
catch_all(pointer) == Outcome(Str(NoAnswer), pointer, 11, 0)

-----------------------------------------------------------------------------
(* retrieve_context: pointer is last_employee on entry, now is what        *)
(* datetime.today() returns if the call reaches it, docs what the          *)
(* similarity search returns if the call reaches it.                       *)

retrieve_context(asked, pointer, now, emps, hols, docs) ==
    LET q == strip(lower(asked))
        sm == salary_match(q)
        upcoming == upcoming_scan(hols, 1, now, 0)
        holiday == named_holiday(hols, q)
        by_id == id_scan(split(q), emps)
        by_name == named_employee(emps, q)
    IN  IF Contains(q, "salary") /\ sm.ok THEN
            salary_step(q, sm, emps, pointer)
        ELSE IF Contains(q, "holiday") /\ Contains(q, "how many") THEN
            holiday_count_step(hols, pointer)
        ELSE IF Contains(q, "holiday") /\ \E w \in {"list", "show", "what"} : Contains(q, w) THEN
            holiday_list_step(hols, pointer)
        ELSE [today |-> IF Contains(q, "upcoming") /\ Contains(q, "holiday") THEN now ELSE 0]
             @@
            (IF Contains(q, "upcoming") /\ Contains(q, "holiday") /\ upcoming # 0 THEN
                upcoming_step(hols[upcoming], pointer)
            ELSE IF holiday # 0 THEN
                named_holiday_step(hols[holiday], pointer)
            ELSE IF EmployeeCountMatch(q) THEN
                employee_count_step(emps, pointer)
            ELSE IF by_id.kind = "raise" THEN
                Outcome(Raised("ValueError"), pointer, 0, 0)
            ELSE IF by_id.kind = "hit" THEN
                id_step(by_id.row, q, emps, pointer)
            ELSE IF by_name # 0 THEN
                name_step(by_name, q, emps, pointer)
            ELSE IF pointer # 0 /\ \E w \in Pronouns : Contains(q, w) THEN
                pronoun_step(pointer, q, emps)
            ELSE IF \E w \in PolicyWords : Contains(q, w) THEN
                policy_step(docs, pointer)
            ELSE catch_all(pointer))

-----------------------------------------------------------------------------
(* ask: the /ask handler of app.py maps the router's result to the answer. *)

Sentinel == "RAG::"

\* what the language model call can give: a text, or an error
Generations == {Str(" Leave is 12 days a year.\n"), Raised("RuntimeError")}

\* the request made no model call
NoGeneration == [kind |-> "uncalled", text |-> ""]

\* result and result.startswith("RAG::")
IsTagged(res) == res.kind = "str" /\ res.text # "" /\ StartsAt(res.text, 1, Sentinel)

\* result and not result.startswith("RAG::")
IsStructured(res) == res.kind = "str" /\ res.text # "" /\ ~StartsAt(res.text, 1, Sentinel)

\* str.replace(old, new): every non-overlapping occurrence, left to right
RECURSIVE ReplaceFrom(_, _, _, _)
ReplaceFrom(s, i, old, new) ==
    IF i > Len(s) THEN ""
    ELSE IF StartsAt(s, i, old) THEN new \o ReplaceFrom(s, i + Len(old), old, new)
    ELSE Char(s, i) \o ReplaceFrom(s, i + 1, old, new)

replace(s, old, new) == ReplaceFrom(s, 1, old, new)

\* the f-string of ask(): the context and the question as posted
Prompt(context, asked) ==
    "\nYou are a strict HR assistant.\nAnswer ONLY from the context.\n"
    \o "If not found, say: Information not available.\n\nContext:\n" \o context
    \o "\n\nQuestion: " \o asked \o "\n\nAnswer:\n"

\* llm(prompt, max_new_tokens=80, temperature=0.0)
MaxNewTokens == 80

Temperature == 0

LlmArgs(prompt) ==
    [prompt |-> prompt, max_new_tokens |-> MaxNewTokens, temperature |-> Temperature]

\* the request made no model call
NoRequest == [prompt |-> "", max_new_tokens |-> 0, temperature |-> 0]

Answered(res) == [answer |-> res, llm_calls |-> 0, llm_args |-> NoRequest]

\* a handler that formats every non-empty result with the model
ask_formats_all(asked, res, output) ==
    IF res.kind = "raise" THEN Answered(res)
    ELSE IF res.kind = "str" /\ res.text # "" THEN
        [answer |-> IF output.kind = "str" THEN Str(strip(output.text)) ELSE output,
         llm_calls |-> 1,
         llm_args |-> LlmArgs(Prompt(replace(res.text, Sentinel, ""), asked))]
    ELSE Answered(Str(NoAnswer))

ask(asked, res, output) ==
    IF res.kind = "raise" THEN Answered(res)
    ELSE IF IsStructured(res) THEN Answered(Str(res.text))
    ELSE IF IsTagged(res) THEN
        LET context == replace(res.text, Sentinel, "")
            prompt == Prompt(context, asked)
        IN  [answer |-> IF output.kind = "raise" THEN output
                        ELSE Str(strip(output.text)),
             llm_calls |-> 1,
             llm_args |-> LlmArgs(prompt)]
    ELSE Answered(Str(NoAnswer))

-----------------------------------------------------------------------------
(* The questions sent to the router.                                       *)

\* each loaded holiday asked for by its name
RoundTripQuestions == {Calendar[i].occasion \o " date?" : i \in 1..MaxHolidays}

AskedQuestions == {
    "salary greater than 50000",
    "list salary less than 60000",
    "list salary above 90000",
    "salary greater than -1",
    "salary below 60000 above 50000",
    "how many holidays?",
    "list upcoming holidays",
    "upcoming holiday",
    "upcoming holiday ²",
    "When is Diwali?",
    "founders day leave policy",
    " How many employees? ",
    "how many employees are there",
    "101 email",
    "999 102 age",
    "102 asha rao salary",
    "102",
    "103 salary",
    "Asha Rao designation",
    "ravi kumar phone",
    "what is his salary?",
    "her email",
    "what is the leave policy",
    "leave policy",
    "what is the weather today",
    "²",
    "² leave policy",
    "what is the diwali holiday policy",
    "how many employees",
    "show how many holidays",
    "² 101 email",
    "101 salary and email",
    "salary above 50k",
    "salary above 50.5",
    "salary above fifty",
    "what is the average weather",
    "who is 102",
    "103 gender and experience",
    "asha rao experience details",
    "Asha Rao",
    "asha rao salary above 50000",
    "show holidays for 101",
    "when is diwali for 103" }

Questions == AskedQuestions \cup RoundTripQuestions

SessionQuestions == {
    "101 email",
    "ravi kumar phone",
    "102",
    "what is his salary?",
    "her email",
    "leave policy" }

Sessions == 1..MaxSessions

-----------------------------------------------------------------------------
(* The tax chatbot of src/backend/main.py: TaxChatbot.chat and the session *)
(* endpoints over the in-memory dictionaries conversations and             *)
(* user_profiles.  A dictionary is a function whose domain is its keys.    *)

\* session_id of the requests
SessionIds == {"alice", "bob"}

\* the user message of the n-th chat request
MessagesFor(n) == {"message " \o ToString(n)}

\* the context of a chat request: the keys holding a value, and its json.dumps
EmptyContext == [keys |-> {}, json |-> "{}"]

ProfileContext ==
    [keys |-> {"taxpayer_profile"},
     json |-> "{\n  \"taxpayer_profile\": {\n    \"age\": 30\n  }\n}"]

Contexts == {EmptyContext, ProfileContext}

\* what model.generate_content(full_prompt).text can give: a text, or an error
GeminiOutcomes ==
    {Str("Please share your salary details."), Raised("503 Service Unavailable")}

\* the opening of self.system_prompt (the knowledge base that follows is fixed text)
SystemPrompt ==
    "You are an expert Indian Chartered Accountant (CA) specializing in Income Tax Returns (ITR)."

\* conversations[session_id][-10:]
HistoryWindow == 10

LastN(entries, n) ==
    IF Len(entries) <= n THEN entries
    ELSE SubSeq(entries, Len(entries) - n + 1, Len(entries))

Message(role, content) == [role |-> role, content |-> content]

\* f"{'User' if msg['role'] == 'user' else 'Assistant'}: {msg['content']}"
HistoryLine(msg) ==
    (IF msg.role = "user" THEN "User" ELSE "Assistant") \o ": " \o msg.content

HistoryLines(entries) == [i \in 1..Len(entries) |-> HistoryLine(entries[i])]

chat_history(entries) == Join(HistoryLines(LastN(entries, HistoryWindow)), "\n")

context_str(context) ==
    IF context.keys # {} THEN "\n\nCurrent user context:\n" \o context.json ELSE ""

full_prompt(context, entries) ==
    SystemPrompt \o "\n\n" \o context_str(context) \o "\n\nConversation so far:\n"
    \o chat_history(entries)
    \o "\n\nProvide a helpful, accurate response. If you're collecting information, suggest the next logical question."

_generate_suggestions(context) ==
    IF "taxpayer_profile" \notin context.keys THEN
        <<"I'm a salaried employee", "I have business income", "I have capital gains",
          "Tell me about deductions">>
    ELSE IF "income_details" \notin context.keys THEN
        <<"Enter my salary details", "I have multiple income sources", "Calculate my tax",
          "Which ITR form should I use?">>
    ELSE
        <<"Compare old vs new regime", "Show me deduction options", "Calculate final tax",
          "How to file ITR online?">>

_determine_next_step(context) ==
    IF "taxpayer_profile" \notin context.keys THEN "profile_collection"
    ELSE IF "income_details" \notin context.keys THEN "income_collection"
    ELSE IF "deduction_details" \notin context.keys THEN "deduction_collection"
    ELSE "tax_calculation"

Apology(error_msg) ==
    "I apologize, but I encountered an error: " \o error_msg \o ". Please try again."

ChatResponse(text, suggestions, context, next_step) ==
    [kind |-> "chat", response |-> text, suggestions |-> suggestions,
     data_collected |-> context.keys, next_step |-> next_step]

\* conversations.get(session_id, []) as the endpoints read it
HistoryOf(dict, session_id) == IF session_id \in DOMAIN dict THEN dict[session_id] ELSE << >>

\* dict[key] = value
Put(dict, key, value) == [k \in DOMAIN dict \cup {key} |-> IF k = key THEN value ELSE dict[k]]

\* a slip: clearing one session empties the dictionary
DeleteAll(dict, key) == << >>

\* if key in dict: del dict[key]
Delete(dict, key) == [k \in DOMAIN dict \ {key} |-> dict[k]]

\* a chat that records the assistant's turn even when the model call fails
chat_records_failure(dict, session_id, user_message, context, outcome) ==
    LET entries == Append(HistoryOf(dict, session_id), Message("user", user_message))
        text == IF outcome.kind = "str" THEN outcome.text ELSE Apology(outcome.text)
    IN  [conversations |-> Put(dict, session_id, Append(entries, Message("assistant", text))),
         full_prompt |-> full_prompt(context, entries),
         response |-> IF outcome.kind = "str"
                      THEN ChatResponse(text, _generate_suggestions(context), context,
                                        _determine_next_step(context))
                      ELSE ChatResponse(text, <<"Start over", "Contact support">>, context,
                                        "None")]

\* TaxChatbot.chat: the history after it, the prompt it sent, what it returned
chat(dict, session_id, user_message, context, outcome) ==
    LET entries == Append(HistoryOf(dict, session_id), Message("user", user_message))
    IN  IF outcome.kind = "str" THEN
            [conversations |->
                 Put(dict, session_id, Append(entries, Message("assistant", outcome.text))),
             full_prompt |-> full_prompt(context, entries),
             response |-> ChatResponse(outcome.text, _generate_suggestions(context), context,
                                       _determine_next_step(context))]
        ELSE
            [conversations |-> Put(dict, session_id, entries),
             full_prompt |-> full_prompt(context, entries),
             response |-> ChatResponse(Apology(outcome.text),
                                       <<"Start over", "Contact support">>, context, "None")]

\* GET /api/session/{session_id}/history
get_conversation_history(dict, session_id) ==
    IF session_id \notin DOMAIN dict THEN [kind |-> "history", messages |-> << >>]
    ELSE [kind |-> "history", messages |-> dict[session_id]]

-----------------------------------------------------------------------------
(* The state machine.                                                      *)

ClockFirst == strptime(ClockStart)

\* the instants datetime.today() can return
Instants == ClockFirst..(ClockFirst + MaxDays * TicksPerDay - 1)

\* the collections as loaded
LoadedEmployees == SubSeq(Roster, 1, MaxEmployees)

LoadedHolidays == SubSeq(Calendar, 1, MaxHolidays)

NoResolution == [by |-> 0, emp |-> 0]

NoRequestYet == [op |-> "none", session_id |-> "", message |-> ""]

NoResponse == [kind |-> "none"]

Init ==
    /\ employee_df = LoadedEmployees
    /\ holiday_data = LoadedHolidays
    /\ last_employee = 0
    /\ question = ""
    /\ result = NoCall
    /\ answered_by = 0
    /\ matched = 0
    /\ today_read = 0
    /\ session = 1
    /\ resolved = 0
    /\ prev = NoResolution
    /\ prev2 = NoResolution
    /\ mentioned = [s \in Sessions |-> {}]
    /\ own = [s \in Sessions |-> 0]
    /\ found = << >>
    /\ answer = NoCall
    /\ llm_calls = 0
    /\ llm_args = NoRequest
    /\ generated = NoGeneration
    /\ conversations = << >>
    /\ user_profiles = << >>
    /\ request = NoRequestYet
    /\ response = NoResponse
    /\ prompt_sent = ""
    /\ gemini = NoGeneration
    /\ chats = 0
    /\ posted = [s \in SessionIds |-> << >>]

\* a design in which each session has a slot of its own
session_pointer(s) == own[s]

\* global last_employee: every session reads the one module-level slot
shared_pointer(s) == last_employee

\* whether a call on the loaded data reads the clock: the steps before the
\* upcoming-holiday test read none, so this does not depend on the clock
ReadsClock ==
    [args \in Questions \X (0..MaxEmployees) |->
        retrieve_context(args[1], args[2], ClockFirst, LoadedEmployees, LoadedHolidays,
                         << >>).today # 0] @@ << >>

ClockOf(q, pointer) == IF ReadsClock[<<q, pointer>>] THEN Instants ELSE {ClockFirst}

\* the call on the loaded data when the search, if it runs, finds nothing
Unfound ==
    [args \in {a \in Questions \X (0..MaxEmployees) \X Instants : a[3] \in ClockOf(a[1], a[2])} |->
        retrieve_context(args[1], args[2], args[3], LoadedEmployees, LoadedHolidays,
                         << >>)] @@ << >>

SearchOf(q, pointer, now) ==
    IF Unfound[<<q, pointer, now>>].answered_by = 10 THEN SearchOutcomes ELSE {<< >>}

\* retrieve_context on the loaded data, evaluated once per argument list: the
\* clock and the search results are arguments of the calls that read them
Routed ==
    [args \in {a \in Questions \X (0..MaxEmployees) \X Instants \X SearchOutcomes :
                  a[3] \in ClockOf(a[1], a[2]) /\ a[4] \in SearchOf(a[1], a[2], a[3])} |->
        IF args[4] = << >> THEN Unfound[<<args[1], args[2], args[3]>>]
        ELSE retrieve_context(args[1], args[2], args[3], LoadedEmployees, LoadedHolidays,
                              args[4])] @@ << >>

\* retrieve_context(q) in the current state
Call(s, q, now, docs) ==
    IF employee_df = LoadedEmployees /\ holiday_data = LoadedHolidays
    THEN Routed[<<q, shared_pointer(s), now, docs>>]
    ELSE retrieve_context(q, shared_pointer(s), now, employee_df, holiday_data, docs)

\* the clock is read only when the upcoming-holiday test is entered
ClockFor(s, q) ==
    IF Call(s, q, ClockFirst, << >>).today # 0 THEN Instants ELSE {ClockFirst}

\* the similarity search runs only when the policy step is reached
SearchFor(s, q, now) ==
    IF Call(s, q, now, << >>).answered_by = 10 THEN SearchOutcomes ELSE {<< >>}

\* the language model runs only on a sentinel-tagged result
GenerationsFor(s, q, now, docs) ==
    IF IsTagged(Call(s, q, now, docs).result) THEN Generations ELSE {NoGeneration}

\* one request: ask() calls retrieve_context(question) with no suspension point
RetrieveContext(s, q, now, docs) ==
    LET out == Call(s, q, now, docs)
    IN  /\ question' = q
        /\ found' = docs
        /\ session' = s
        /\ result' = out.result
        /\ last_employee' = out.last_employee
        /\ answered_by' = out.answered_by
        /\ matched' = out.matched
        /\ today_read' = out.today
        /\ UNCHANGED <<employee_df, holiday_data>>

\* the rest of ask(): the answer made of the router's result
Respond(output) ==
    LET out == ask(question', result', output)
    IN  /\ generated' = output
        /\ answer' = out.answer
        /\ llm_calls' = out.llm_calls
        /\ llm_args' = out.llm_args

\* bookkeeping: the row of the most recent call that matched one
TrackResolved == resolved' = IF matched' # 0 THEN matched' ELSE resolved

\* bookkeeping: the resolutions of the two calls before the latest
TrackHistory ==
    /\ prev' = IF matched # 0 THEN [by |-> answered_by, emp |-> matched] ELSE NoResolution
    /\ prev2' = prev

\* bookkeeping: what each session has itself resolved
TrackSessions ==
    /\ mentioned' = IF matched' # 0
                    THEN [mentioned EXCEPT ![session'] = @ \cup {matched'}]
                    ELSE mentioned
    /\ own' = IF matched' # 0 THEN [own EXCEPT ![session'] = matched'] ELSE own

Ask ==
    \E q \in Questions : \E now \in ClockFor(1, q) : \E docs \in SearchFor(1, q, now) :
      \E output \in GenerationsFor(1, q, now, docs) :
        /\ RetrieveContext(1, q, now, docs)
        /\ Respond(output)
        /\ TrackResolved
        /\ TrackHistory
        /\ UNCHANGED <<mentioned, own, chatVars>>

Next == Ask

Spec == Init /\ [][Next]_vars

\* several sessions post to the same process; ask() is a coroutine whose only
\* await (request.json()) comes before the router call, and retrieve_context
\* and llm are plain calls: from the router call to the return a request is
\* one step of the event loop
AskFromSession ==
    \E s \in Sessions : \E q \in SessionQuestions :
        \E now \in ClockFor(s, q) : \E docs \in SearchFor(s, q, now) :
          \E output \in GenerationsFor(s, q, now, docs) :
            /\ RetrieveContext(s, q, now, docs)
            /\ Respond(output)
            /\ TrackResolved
            /\ TrackSessions
            /\ UNCHANGED <<prev, prev2, chatVars>>

NextSessions == AskFromSession

SpecSessions == Init /\ [][NextSessions]_vars

-----------------------------------------------------------------------------
(* The requests to the tax chatbot.                                        *)

Request(op, session_id, message) == [op |-> op, session_id |-> session_id, message |-> message]

\* POST /api/chat: chat() has no suspension point, the request runs in one step
Chat ==
    \E session_id \in SessionIds : \E user_message \in MessagesFor(chats + 1) :
      \E context \in Contexts : \E outcome \in GeminiOutcomes :
        LET out == chat(conversations, session_id, user_message, context, outcome)
        IN  /\ chats < MaxChats
            /\ chats' = chats + 1
            /\ conversations' = out.conversations
            /\ prompt_sent' = out.full_prompt
            /\ response' = out.response
            /\ request' = Request("chat", session_id, user_message)
            /\ gemini' = outcome
            /\ posted' = [posted EXCEPT ![session_id] = Append(@, user_message)]
            /\ UNCHANGED <<user_profiles, hrVars>>

\* DELETE /api/session/{session_id}
ClearSession ==
    \E session_id \in SessionIds :
        /\ conversations' = Delete(conversations, session_id)
        /\ user_profiles' = Delete(user_profiles, session_id)
        /\ response' = [kind |-> "cleared", status |-> "cleared"]
        /\ request' = Request("clear", session_id, "")
        /\ posted' = [posted EXCEPT ![session_id] = << >>]
        /\ prompt_sent' = ""
        /\ gemini' = NoGeneration
        /\ UNCHANGED <<chats, hrVars>>

\* GET /api/session/{session_id}/history
GetHistory ==
    \E session_id \in SessionIds :
        /\ response' = get_conversation_history(conversations, session_id)
        /\ request' = Request("history", session_id, "")
        /\ prompt_sent' = ""
        /\ gemini' = NoGeneration
        /\ UNCHANGED <<conversations, user_profiles, chats, posted, hrVars>>

NextChat == Chat \/ ClearSession \/ GetHistory

SpecChat == Init /\ [][NextChat]_vars

-----------------------------------------------------------------------------
(* The tax calculator of src/backend/main.py.  Incomes and deductions are  *)
(* whole rupees; tax amounts are counted in units of 1/2500 rupee, in      *)
(* which a percentage of whole rupees and the 4% cess on it are integers.  *)

\* units per rupee
Scale == 2500

Rupees(amount) == amount * Scale

\* limit of the last slab: float('inf')
Unbounded == -1

Slab(limit, percent) == [limit |-> limit, rate |-> percent]

NEW_REGIME_SLABS ==
    <<Slab(300000, 0), Slab(300000, 5), Slab(300000, 10), Slab(300000, 15),
      Slab(300000, 20), Slab(Unbounded, 30)>>

OLD_REGIME_SLABS ==
    <<Slab(250000, 0), Slab(250000, 5), Slab(500000, 20), Slab(Unbounded, 30)>>

Min(a, b) == IF a <= b THEN a ELSE b

Max(a, b) == IF a >= b THEN a ELSE b

\* min(remaining, limit)
taxable_in_slab(remaining, limit) ==
    IF limit = Unbounded THEN remaining ELSE Min(remaining, limit)

\* taxable_in_slab * rate
tax_in_slab(amount, percent) == amount * percent * (Scale \div 100)

\* the loop over the slabs: the tax of each slab entered, in slab order
RECURSIVE Breakdown(_, _)
Breakdown(remaining, slabs) ==
    IF slabs = << >> \/ remaining <= 0 THEN << >>
    ELSE LET amount == taxable_in_slab(remaining, Head(slabs).limit)
         IN  <<tax_in_slab(amount, Head(slabs).rate)>>
             \o Breakdown(remaining - amount, Tail(slabs))

RECURSIVE Sum(_)
Sum(amounts) == IF amounts = << >> THEN 0 ELSE Head(amounts) + Sum(Tail(amounts))

NewRebateLimit == 700000
NewRebateCap == 25000
OldRebateLimit == 500000
OldRebateCap == 12500

\* cess = tax_after_rebate * 0.04
CessPercent == 4

\* a rebate test that leaves the threshold itself out
rebate_87a_below_limit(tax, taxable_income, regime) ==
    IF regime = "new" /\ taxable_income < NewRebateLimit THEN Min(tax, Rupees(NewRebateCap))
    ELSE IF regime = "old" /\ taxable_income < OldRebateLimit THEN Min(tax, Rupees(OldRebateCap))
    ELSE 0

\* rebate u/s 87A
rebate_87a(tax, taxable_income, regime) ==
    IF regime = "new" /\ taxable_income <= NewRebateLimit THEN Min(tax, Rupees(NewRebateCap))
    ELSE IF regime = "old" /\ taxable_income <= OldRebateLimit THEN Min(tax, Rupees(OldRebateCap))
    ELSE 0

\* TaxCalculator.calculate_tax
calculate_tax(taxable_income, regime) ==
    LET slabs == IF regime = "new" THEN NEW_REGIME_SLABS ELSE OLD_REGIME_SLABS
        breakdown == Breakdown(taxable_income, slabs)
        tax == Sum(breakdown)
        rebate == rebate_87a(tax, taxable_income, regime)
        tax_after_rebate == Max(0, tax - rebate)
        cess == (tax_after_rebate * CessPercent) \div 100
    IN  [base_tax |-> tax, rebate_87a |-> rebate, tax_after_rebate |-> tax_after_rebate,
         cess |-> cess, total_tax |-> tax_after_rebate + cess, breakdown |-> breakdown]

StandardDeduction == 50000

\* section_80c + section_80d + section_80e + section_80g + section_80tta + home_loan_interest
Itemised(deductions) ==
    deductions.section_80c + deductions.section_80d + deductions.section_80e
    + deductions.section_80g + deductions.section_80tta + deductions.home_loan_interest

\* the taxable incomes TaxCalculator.recommend_regime computes the two taxes on
old_taxable(gross_income, deductions) ==
    gross_income - (Itemised(deductions) + StandardDeduction)

new_taxable(gross_income, deductions) == gross_income - StandardDeduction

\* TaxCalculator.recommend_regime
recommend_regime(gross_income, deductions) ==
    LET old_tax == calculate_tax(Max(0, old_taxable(gross_income, deductions)), "old")
        new_tax == calculate_tax(Max(0, new_taxable(gross_income, deductions)), "new")
        savings == IF new_tax.total_tax >= old_tax.total_tax
                   THEN new_tax.total_tax - old_tax.total_tax
                   ELSE old_tax.total_tax - new_tax.total_tax
    IN  [kind |-> "recommend-regime",
         recommended_regime |-> IF new_tax.total_tax <= old_tax.total_tax THEN "new" ELSE "old",
         old_regime_tax |-> old_tax.total_tax,
         new_regime_tax |-> new_tax.total_tax,
         savings |-> savings,
         old_regime_details |-> old_tax,
         new_regime_details |-> new_tax]

\* POST /api/calculate-tax
calculate_tax_endpoint(total_income, deductions, regime) ==
    LET total_deductions ==
            Itemised(deductions) + (IF regime = "old" THEN StandardDeduction ELSE 0)
        taxable_income == Max(0, total_income - total_deductions - StandardDeduction)
        tax_result == calculate_tax(taxable_income, regime)
    IN  [kind |-> "calculate-tax",
         gross_income |-> total_income,
         total_deductions |-> total_deductions,
         taxable_income |-> taxable_income,
         tax_amount |-> tax_result.tax_after_rebate,
         cess |-> tax_result.cess,
         total_tax |-> tax_result.total_tax,
         regime_used |-> regime,
         breakdown |-> tax_result.breakdown]

ITRFormRecommendation(form, reason, alternatives) ==
    [kind |-> "recommend-itr-form", recommended_form |-> form, reason |-> reason,
     alternative_forms |-> alternatives]

\* ITRFormSelector.select_form
select_form(profile, income) ==
    IF /\ income.salary_income > 0
       /\ income.business_income = 0
       /\ income.capital_gains_short = 0
       /\ income.capital_gains_long = 0
       /\ income.rental_income = 0
       /\ profile.taxpayer_category = "Individual"
    THEN ITRFormRecommendation("ITR-1",
             "Suitable for salaried individuals with salary and interest income only", << >>)
    ELSE IF \/ income.capital_gains_short > 0
            \/ income.capital_gains_long > 0
            \/ income.rental_income > 0
    THEN ITRFormRecommendation("ITR-2",
             "Required for capital gains, foreign income, or income from multiple properties",
             << >>)
    ELSE IF income.business_income > 0
    THEN ITRFormRecommendation("ITR-3", "Required for income from business or profession",
                               <<"ITR-4">>)
    ELSE ITRFormRecommendation("ITR-1", "Based on provided information", <<"ITR-2">>)

-----------------------------------------------------------------------------
(* The requests to the tax calculator.                                     *)

\* where a slab or a rebate ends
Thresholds == {250000, 300000, 500000, 600000, 700000, 900000, 1000000, 1200000}

\* the incomes asked about: a grid, and each threshold with its neighbours
Incomes ==
    {k * IncomeStep : k \in 0..MaxIncomeSteps}
    \cup {t + d : t \in Thresholds, d \in {-1, 0, 1}}

Regimes == {"new", "old"}

Deductions(c, d, e, g, tta, home) ==
    [section_80c |-> c, section_80d |-> d, section_80e |-> e, section_80g |-> g,
     section_80tta |-> tta, home_loan_interest |-> home]

DeductionChoices ==
    {Deductions(0, 0, 0, 0, 0, 0),
     Deductions(50000, 0, 0, 0, 0, 0),
     Deductions(150000, 25000, 0, 10000, 10000, 200000)}

FormAmounts == {0, 500000}

IncomeChoices ==
    [salary_income : FormAmounts, business_income : FormAmounts,
     capital_gains_short : FormAmounts, capital_gains_long : FormAmounts,
     rental_income : FormAmounts, other_income : {0}]

ProfileChoices == [taxpayer_category : {"Individual", "HUF"}]

chatFrame == <<conversations, user_profiles, prompt_sent, gemini, chats, posted>>

\* TaxCalculator.calculate_tax(taxable_income, regime)
CalculateTax ==
    \E taxable_income \in Incomes : \E regime \in Regimes :
        /\ request' = [op |-> "calculate_tax", taxable_income |-> taxable_income,
                       regime |-> regime]
        /\ response' = [kind |-> "tax", result |-> calculate_tax(taxable_income, regime)]
        /\ UNCHANGED <<chatFrame, hrVars>>

\* POST /api/calculate-tax
CalculateTaxEndpoint ==
    \E total_income \in Incomes : \E deductions \in DeductionChoices : \E regime \in Regimes :
        /\ request' = [op |-> "/api/calculate-tax", total_income |-> total_income,
                       deductions |-> deductions, regime |-> regime]
        /\ response' = calculate_tax_endpoint(total_income, deductions, regime)
        /\ UNCHANGED <<chatFrame, hrVars>>

\* POST /api/recommend-regime
RecommendRegime ==
    \E gross_income \in Incomes : \E deductions \in DeductionChoices :
        /\ request' = [op |-> "/api/recommend-regime", gross_income |-> gross_income,
                       deductions |-> deductions]
        /\ response' = recommend_regime(gross_income, deductions)
        /\ UNCHANGED <<chatFrame, hrVars>>

\* POST /api/recommend-itr-form
RecommendItrForm ==
    \E profile \in ProfileChoices : \E income \in IncomeChoices :
        /\ request' = [op |-> "/api/recommend-itr-form", profile |-> profile,
                       income |-> income]
        /\ response' = select_form(profile, income)
        /\ UNCHANGED <<chatFrame, hrVars>>

NextTax == CalculateTax \/ CalculateTaxEndpoint \/ RecommendRegime \/ RecommendItrForm

SpecTax == Init /\ [][NextTax]_vars

-----------------------------------------------------------------------------
(* Vocabulary of the properties.                                           *)

\* a question as the router sees it, tabulated for the questions asked
Normalise == [asked \in Questions |-> strip(lower(asked))] @@ << >>

normalised(asked) ==
    IF asked \in DOMAIN Normalise THEN Normalise[asked] ELSE strip(lower(asked))

\* the latest question as the router sees it
Normalised == normalised(question)

\* the answer of the field formatter about a row of the table
FieldAnswer(row, q) == Str(employee_field_response(employee_df[row], q))

\* the rows that numeric tokens of q identify, by token position
NumericHits(q, emps) ==
    {i \in 1..Len(split(q)) :
        /\ isdigit(split(q)[i])
        /\ IntParses(split(q)[i])
        /\ row_with_id(emps, IntOf(split(q)[i])) # 0}

FirstIdRow(q, emps) ==
    LET i == CHOOSE i \in NumericHits(q, emps) : \A j \in NumericHits(q, emps) : i <= j
    IN  row_with_id(emps, IntOf(split(q)[i]))

\* the predicate of step k, for steps 4, 7 and 8 with a result to give
StepHolds(k, q, pointer, now, emps, hols) ==
    CASE k = 1 -> Contains(q, "salary") /\ salary_match(q).ok
      [] k = 2 -> Contains(q, "holiday") /\ Contains(q, "how many")
      [] k = 3 -> Contains(q, "holiday") /\ \E w \in {"list", "show", "what"} : Contains(q, w)
      [] k = 4 -> Contains(q, "upcoming") /\ Contains(q, "holiday")
                    /\ upcoming_scan(hols, 1, now, 0) # 0
      [] k = 5 -> named_holiday(hols, q) # 0
      [] k = 6 -> EmployeeCountMatch(q)
      [] k = 7 -> NumericHits(q, emps) # {}
      [] k = 8 -> named_employee(emps, q) # 0
      [] k = 9 -> pointer # 0 /\ \E w \in Pronouns : Contains(q, w)
      [] k = 10 -> \E w \in PolicyWords : Contains(q, w)
      [] OTHER -> TRUE

\* what step k answers
StepAnswers(k, q, pointer, now, emps, hols) ==
    CASE k = 1 -> {salary_step(q, salary_match(q), emps, pointer)}
      [] k = 2 -> {holiday_count_step(hols, pointer)}
      [] k = 3 -> {holiday_list_step(hols, pointer)}
      [] k = 4 -> {upcoming_step(hols[upcoming_scan(hols, 1, now, 0)], pointer)}
      [] k = 5 -> {named_holiday_step(hols[named_holiday(hols, q)], pointer)}
      [] k = 6 -> {employee_count_step(emps, pointer)}
      [] k = 7 -> {id_step(FirstIdRow(q, emps), q, emps, pointer)}
      [] k = 8 -> {name_step(named_employee(emps, q), q, emps, pointer)}
      [] k = 9 -> {pronoun_step(pointer, q, emps)}
      [] k = 10 -> {policy_step(docs, pointer) : docs \in SearchOutcomes}
      [] OTHER -> {catch_all(pointer)}

\* the lowest-numbered step whose predicate holds
FirstStep(q, pointer, now, emps, hols) ==
    LET holding == {k \in 1..11 : StepHolds(k, q, pointer, now, emps, hols)}
    IN  CHOOSE k \in holding : \A j \in holding : k <= j

\* the latest call gave the answer, and left the pointer, of the first step that holds
AnsweredByFirstStep ==
    LET q == normalised(question')
        k == FirstStep(q, last_employee, today_read', employee_df, holiday_data)
    IN  \E o \in StepAnswers(k, q, last_employee, today_read', employee_df, holiday_data) :
            result' = o.result /\ last_employee' = o.last_employee

-----------------------------------------------------------------------------
(* C1: the matchers are tried in the fixed order 1..11 and, for every      *)
(* question, the answer and the pointer are those of the lowest-numbered   *)
(* step whose predicate holds.  The code breaks this on a question with a  *)
(* token such as "²": step 7 raises before the later steps are tried.      *)

C1_FirstMatchWins == [][AnsweredByFirstStep]_vars

\* what does hold: every call that returns is answered by the first step that holds
FirstMatchWinsWhenReturning == [][result'.kind # "raise" => AnsweredByFirstStep]_vars

-----------------------------------------------------------------------------
(* C2: after a question that the ID step resolved to employee E, a pronoun *)
(* question about the salary that matches no ID or name returns E's        *)
(* salary; while no employee has been resolved since startup the same      *)
(* question returns the no-answer message and the pointer stays empty.     *)

PronounSalaryQuestion(q) ==
    /\ \E w \in Pronouns : Contains(q, w)
    /\ Contains(q, "salary") /\ ~Contains(q, "age") /\ ~Contains(q, "gender")
    /\ ~salary_match(q).ok
    /\ ~Contains(q, "holiday")
    /\ named_holiday(holiday_data, q) = 0
    /\ ~EmployeeCountMatch(q)
    /\ \A i \in 1..Len(split(q)) : ~isdigit(split(q)[i])
    /\ named_employee(employee_df, q) = 0

SalarySentence(row) == row.Emp_Name \o "'s salary is " \o ToString(row.Salary) \o "."

C2_PronounFollowUp ==
    PronounSalaryQuestion(Normalised) =>
        /\ prev.by = 7 => result = Str(SalarySentence(employee_df[prev.emp]))
        /\ resolved = 0 => result = Str(NoAnswer) /\ last_employee = 0

C2_Witness ==
    /\ PronounSalaryQuestion(Normalised)
    /\ prev.by = 7
    /\ answered_by = 9
    /\ result = Str(SalarySentence(employee_df[prev.emp]))

-----------------------------------------------------------------------------
(* C3: the pointer is last-write-wins: it always equals the row of the     *)
(* most recent call answered by the ID step or the name step, and a        *)
(* pronoun follow-up is answered with that row's data: after A by name     *)
(* and then B by ID, with B's and never A's.                               *)

C3_LastWriteWins ==
    /\ last_employee = resolved
    /\ answered_by = 9 => result = FieldAnswer(resolved, Normalised)

C3_Witness ==
    /\ answered_by = 9
    /\ prev2.by = 8
    /\ prev.by = 7
    /\ prev.emp # prev2.emp
    /\ result = FieldAnswer(prev.emp, Normalised)
    /\ result # FieldAnswer(prev2.emp, Normalised)

-----------------------------------------------------------------------------
(* C4: the pointer is never cleared: once it holds an employee it holds    *)
(* one after every later call, it keeps the same employee across calls     *)
(* answered by steps other than the ID and name steps, and a pronoun       *)
(* follow-up after such calls is still about that employee.                *)

C4_NeverCleared ==
    [][last_employee # 0 =>
          /\ last_employee' # 0
          /\ answered_by' \notin {7, 8} => last_employee' = last_employee
          /\ answered_by' = 9 =>
                result' = FieldAnswer(last_employee, normalised(question'))]_vars

C4_Witness ==
    /\ answered_by = 9
    /\ prev = NoResolution
    /\ prev2.by \in {7, 8}
    /\ last_employee = prev2.emp
    /\ result = FieldAnswer(prev2.emp, Normalised)
    /\ result # Str(NoAnswer)

-----------------------------------------------------------------------------
(* C5: only a successful ID match or name match writes the pointer, with   *)
(* the matched row; every other outcome (pronoun follow-up, numeric token  *)
(* without a record, policy fallback, catch-all, a raised error) leaves    *)
(* it as it was; no call changes the employee or holiday collections.      *)

C5_PointerFrame ==
    [][/\ answered_by' \in {7, 8} => matched' # 0 /\ last_employee' = matched'
       /\ answered_by' \notin {7, 8} => last_employee' = last_employee
       /\ employee_df' = employee_df
       /\ holiday_data' = holiday_data]_vars

C5_Witness ==
    /\ answered_by = 10
    /\ result.kind = "str"
    /\ last_employee # 0

-----------------------------------------------------------------------------
(* C6: sessions share the one pointer slot: a session's pronoun question   *)
(* is answered about the employee most recently resolved by any session,   *)
(* also when this session resolved another employee, or never mentioned    *)
(* that one.                                                               *)

C6_SharedSlot ==
    (answered_by = 9 /\ own[session] # resolved) =>
        result = FieldAnswer(resolved, Normalised)

C6_Witness ==
    /\ answered_by = 9
    /\ own[session] # 0
    /\ resolved \notin mentioned[session]
    /\ result = FieldAnswer(resolved, Normalised)
    /\ result # FieldAnswer(own[session], Normalised)

-----------------------------------------------------------------------------
(* C7: salary questions.                                                   *)

\* a comparison phrase at position i of q followed by an integer, signed or not
PhraseThenInteger(q, i, k) ==
    LET p == ComparisonPhrases[k]
        j == SkipSpaces(q, i + Len(p))
        signed == j <= Len(q) /\ Char(q, j) = "-"
        d == IF signed THEN j + 1 ELSE j
        e == DigitsEnd(q, d)
    IN  [ok |-> StartsAt(q, i, p) /\ e >= d,
         signed |-> signed,
         greater |-> p \in GreaterPhrases,
         threshold |-> IF StartsAt(q, i, p) /\ e >= d
                       THEN (IF signed THEN 0 - IntOf(SubSeq(q, d, e))
                             ELSE IntOf(SubSeq(q, d, e)))
                       ELSE 0]

\* every comparison of q: a phrase followed by an integer threshold
Comparisons(q) ==
    {c \in (1..Len(q)) \X (1..Len(ComparisonPhrases)) : PhraseThenInteger(q, c[1], c[2]).ok}

\* the comparisons whose threshold is written without a sign
UnsignedComparisons(q) == {c \in Comparisons(q) : ~PhraseThenInteger(q, c[1], c[2]).signed}

\* the rows of the table with a salary strictly beyond the threshold
Qualifying(greater, threshold) ==
    {i \in 1..Len(employee_df) :
        IF greater THEN employee_df[i].Salary > threshold
        ELSE employee_df[i].Salary < threshold}

RECURSIVE LinesInLoadOrder(_, _)
LinesInLoadOrder(rows, i) ==
    IF i > Len(employee_df) THEN << >>
    ELSE (IF i \in rows
          THEN <<employee_df[i].Emp_Name \o " - " \o ToString(employee_df[i].Salary)>>
          ELSE << >>) \o LinesInLoadOrder(rows, i + 1)

\* the count of the qualifying employees or, for a list question, their lines
SalaryAnswer(q, greater, threshold) ==
    LET rows == Qualifying(greater, threshold)
    IN  IF ~Contains(q, "list")
        THEN Str(ToString(Cardinality(rows)) \o " employees match the salary condition.")
        ELSE IF rows = {} THEN Str("No employees found.")
        ELSE Str("Employees matching salary condition:\n"
                 \o Join(LinesInLoadOrder(rows, 1), "\n"))

\* C7 as stated: for every integer threshold T, a question containing
\* 'salary' and a comparison phrase followed by T is answered with the
\* employees strictly beyond T in that direction: their count or, for a
\* 'list' question, their 'Name - Salary' lines in load order.  This fails
\* for a negative T and for a comparison that is not the first of the question.
C7_EveryIntegerThreshold ==
    Contains(Normalised, "salary") =>
        \A c \in Comparisons(Normalised) :
            LET m == PhraseThenInteger(Normalised, c[1], c[2])
            IN  result = SalaryAnswer(Normalised, m.greater, m.threshold)

\* C7 amended: a question containing 'salary' is answered from its leftmost
\* comparison phrase that is followed by an unsigned decimal threshold T:
\* with the count of the employees whose salary is strictly greater (or
\* strictly less) than T, an employee at exactly T never counted, or, for
\* a 'list' question, with exactly their lines, once each, in load order.
C7_StrictFilter ==
    (Contains(Normalised, "salary") /\ UnsignedComparisons(Normalised) # {}) =>
        LET c == CHOOSE c \in UnsignedComparisons(Normalised) :
                    \A d \in UnsignedComparisons(Normalised) : c[1] <= d[1]
            m == PhraseThenInteger(Normalised, c[1], c[2])
        IN  /\ answered_by = 1
            /\ result = SalaryAnswer(Normalised, m.greater, m.threshold)

C7_Witness ==
    /\ answered_by = 1
    /\ Contains(Normalised, "list")
    /\ \E c \in UnsignedComparisons(Normalised) :
          LET m == PhraseThenInteger(Normalised, c[1], c[2])
          IN  /\ ~m.greater
              /\ \E i \in 1..Len(employee_df) : employee_df[i].Salary = m.threshold
              /\ Cardinality(Qualifying(m.greater, m.threshold)) >= 2
              /\ result = SalaryAnswer(Normalised, m.greater, m.threshold)

-----------------------------------------------------------------------------
(* C8: the router is total: every call returns an answer string, a         *)
(* sentinel-tagged context string or the no-answer outcome, and never      *)
(* raises.  The code raises ValueError in step 7 on a token such as "²",   *)
(* which str.isdigit accepts and int rejects.                              *)

C8_RouterTotal == result # NoCall => result.kind \in {"str", "None"}

-----------------------------------------------------------------------------
(* C9: when the upcoming-holiday step is reached and some holiday is dated *)
(* on or after the current date, the answer is the holiday of the earliest *)
(* such date, a holiday dated today included, the first in load order      *)
(* among equal dates.  The code compares with the current instant, so a    *)
(* holiday dated today qualifies at midnight only.                         *)

DayOf(instant) == instant \div TicksPerDay

OnOrAfterToday == {i \in 1..Len(holiday_data) :
                      DayOf(strptime(holiday_data[i].date)) >= DayOf(today_read)}

C9_EarliestOnOrAfterToday ==
    (today_read # 0 /\ OnOrAfterToday # {}) =>
        LET day(i) == DayOf(strptime(holiday_data[i].date))
            first == CHOOSE i \in OnOrAfterToday :
                        \A j \in OnOrAfterToday :
                            day(i) < day(j) \/ (day(i) = day(j) /\ i <= j)
        IN  result = upcoming_step(holiday_data[first], last_employee).result

-----------------------------------------------------------------------------
(* C10: when the upcoming-holiday step is reached and no holiday is dated  *)
(* on or after the current date, the step gives no answer and no error,    *)
(* and the call is answered by the first of the later matchers (5..10)     *)
(* that holds, else with the no-answer message.  The code raises in step 7 *)
(* when such a question carries a token such as "²" (see C8).              *)

LaterStep(q, pointer, now, emps, hols) ==
    LET holding == {k \in 5..11 : StepHolds(k, q, pointer, now, emps, hols)}
    IN  CHOOSE k \in holding : \A j \in holding : k <= j

C10_FallsThrough ==
    [][(today_read' # 0 /\ OnOrAfterToday' = {}) =>
          LET q == normalised(question')
              k == LaterStep(q, last_employee, today_read', employee_df, holiday_data)
          IN  \E o \in StepAnswers(k, q, last_employee, today_read', employee_df,
                                   holiday_data) :
                  result' = o.result /\ last_employee' = o.last_employee]_vars

\* what does hold: without an error of step 7, such a call falls through
FallsThroughWhenReturning ==
    [][(today_read' # 0 /\ OnOrAfterToday' = {} /\ result'.kind # "raise") =>
          LET q == normalised(question')
              k == LaterStep(q, last_employee, today_read', employee_df, holiday_data)
          IN  \E o \in StepAnswers(k, q, last_employee, today_read', employee_df,
                                   holiday_data) :
                  result' = o.result /\ last_employee' = o.last_employee]_vars

-----------------------------------------------------------------------------
(* C11: round trip over the holiday corpus: for every loaded holiday h the *)
(* question  h.occasion + " date?"  is answered with h's own detail        *)
(* sentence, which holds h's date and weekday, whatever the pointer.  The  *)
(* code looks the name up between two \b: a name that ends (or starts)     *)
(* with a character that is no word character is never found.             *)

DetailSentence(h) == h.occasion \o " is on " \o h.date \o " (" \o h.day \o ")."

C11_HolidayRoundTrip ==
    \A i \in 1..Len(holiday_data) :
        question = holiday_data[i].occasion \o " date?" =>
            /\ result = Str(DetailSentence(holiday_data[i]))
            /\ Contains(result.text, holiday_data[i].date)
            /\ Contains(result.text, holiday_data[i].day)

\* a name that starts and ends with a word character
PlainName(name) ==
    /\ name # ""
    /\ IsWordChar(Char(lower(name), 1))
    /\ IsWordChar(Char(lower(name), Len(name)))

\* what does hold: the round trip of the holidays with a plain name that no
\* earlier holiday's name is a whole word of
PlainHolidayRoundTrip ==
    \A i \in 1..Len(holiday_data) :
        (/\ question = holiday_data[i].occasion \o " date?"
         /\ PlainName(holiday_data[i].occasion)
         /\ \A j \in 1..(i - 1) :
               ~WholeWordSearch(lower(holiday_data[j].occasion), Normalised)) =>
            result = Str(DetailSentence(holiday_data[i]))

-----------------------------------------------------------------------------
(* C12: holiday names against policy vocabulary.                           *)

\* the loaded holidays whose name is a whole word of q
NamedHolidays(q) ==
    {i \in 1..Len(holiday_data) : WholeWordSearch(lower(holiday_data[i].occasion), q)}

HasPolicyWord(q) == \E w \in PolicyWords : Contains(q, w)

\* one of the steps before the named-holiday lookup answers the latest question
EarlierStepHolds ==
    \E k \in 1..4 : StepHolds(k, Normalised, 0, today_read, employee_df, holiday_data)

\* the latest call was answered by the named-holiday lookup with h's sentence
AnsweredAboutHoliday(i) ==
    /\ answered_by = 5
    /\ result = Str(DetailSentence(holiday_data[i]))
    /\ found = << >>
    /\ llm_calls = 0

\* C12 as stated: every question that contains a holiday's name as a whole
\* word and policy vocabulary is answered by the named-holiday lookup with
\* that holiday's sentence, and no similarity search is made for it.  This
\* fails when one of the steps 1 to 4 matches the question first.
C12_HolidayNameBeatsPolicy ==
    (NamedHolidays(Normalised) # {} /\ HasPolicyWord(Normalised)) =>
        \E i \in NamedHolidays(Normalised) : AnsweredAboutHoliday(i)

\* C12 amended: a question that contains a holiday's name as a whole word
\* and policy vocabulary, and that none of the steps 1 to 4 matches, is
\* answered by the named-holiday lookup with the sentence of the first such
\* holiday in load order; the similarity search is not made for it.
C12_HolidayNameBeatsPolicyAfterEarlierSteps ==
    (NamedHolidays(Normalised) # {} /\ HasPolicyWord(Normalised) /\ ~EarlierStepHolds) =>
        LET first == CHOOSE i \in NamedHolidays(Normalised) :
                        \A j \in NamedHolidays(Normalised) : i <= j
        IN  AnsweredAboutHoliday(first)

C12_Witness ==
    /\ HasPolicyWord(Normalised)
    /\ NamedHolidays(Normalised) # {}
    /\ ~EarlierStepHolds
    /\ answered_by = 5
    /\ \E i \in NamedHolidays(Normalised) : result = Str(DetailSentence(holiday_data[i]))
    /\ found = << >>

-----------------------------------------------------------------------------
(* C13: the employee-count rule is a strict full match: trimmed and        *)
(* lowercased, exactly 'how many employees' or 'how many employees?' is    *)
(* answered with the number of employee records; a longer question that    *)
(* starts with the phrase does not match the rule and falls through to     *)
(* the later steps.                                                        *)

CountPhrases == {"how many employees", "how many employees?"}

CountSentence == Str("There are " \o ToString(Len(employee_df)) \o " employees.")

LongerCountQuestion(q) == StartsAt(q, 1, "how many employees") /\ q \notin CountPhrases

C13_StrictEmployeeCount ==
    /\ Normalised \in CountPhrases => answered_by = 6 /\ result = CountSentence
    /\ LongerCountQuestion(Normalised) =>
          /\ answered_by \in 7..11
          /\ result # CountSentence

C13_Witness ==
    /\ LongerCountQuestion(Normalised)
    /\ answered_by \in 7..11
    /\ result = Str(NoAnswer)

-----------------------------------------------------------------------------
(* C14: a question containing 'holiday' and 'how many' that the salary     *)
(* filter does not match is answered with the number of loaded holiday     *)
(* records, also when it contains 'list', 'show' or 'what': the count      *)
(* comes before the holiday list.                                          *)

HolidayCountQuestion(q) ==
    /\ Contains(q, "holiday")
    /\ Contains(q, "how many")
    /\ ~(Contains(q, "salary") /\ UnsignedComparisons(q) # {})

HolidayCountSentence ==
    Str("There are " \o ToString(Len(holiday_data)) \o " holidays in 2026.")

C14_HolidayCountBeforeList ==
    HolidayCountQuestion(Normalised) => answered_by = 2 /\ result = HolidayCountSentence

C14_Witness ==
    /\ HolidayCountQuestion(Normalised)
    /\ \E w \in {"list", "show", "what"} : Contains(Normalised, w)
    /\ answered_by = 2
    /\ result = HolidayCountSentence

-----------------------------------------------------------------------------
(* C15: in the ID step a numeric token that identifies no employee is no   *)
(* match and leaves the pointer alone; the scan goes on to the following   *)
(* numeric tokens, the first that identifies an employee sets the pointer  *)
(* and answers; with none, the question falls through to the name,         *)
(* pronoun and fallback steps.  The code raises ValueError on a token      *)
(* that str.isdigit accepts and int rejects (see C8), so the scan does     *)
(* not go on past "²".                                                     *)

\* the latest question has a token that passes the numeric-token test, and
\* none of the steps 1 to 6 answers it
IdStepReached ==
    /\ \E i \in 1..Len(split(Normalised)) : isdigit(split(Normalised)[i])
    /\ \A k \in 1..6 : ~StepHolds(k, Normalised, 0, today_read, employee_df, holiday_data)

\* the outcome of the ID step as stated
IdScanOutcome ==
    IF NumericHits(Normalised, employee_df) # {}
    THEN /\ answered_by = 7
         /\ matched = FirstIdRow(Normalised, employee_df)
         /\ last_employee = matched
         /\ result = FieldAnswer(matched, Normalised)
    ELSE /\ answered_by \in 8..11
         /\ answered_by # 8 => matched = 0 /\ last_employee = resolved

C15_IdScanContinues == IdStepReached => IdScanOutcome

\* what does hold: the same of every call that returns
IdScanWhenReturning == (IdStepReached /\ result.kind # "raise") => IdScanOutcome

-----------------------------------------------------------------------------
(* C16: in the name step, when the names of two or more employees are      *)
(* substrings of the lowercased question, the employee first in load       *)
(* order is chosen, the pointer is set to that employee and the answer is  *)
(* about that employee, whichever name is longer or more specific.         *)

\* the rows whose lowercased name is a substring of q
NamesIn(q) == {i \in 1..Len(employee_df) : Contains(q, lower(employee_df[i].Emp_Name))}

\* the latest call got as far as the name step
NameStepReached ==
    /\ result.kind # "raise"
    /\ \A k \in 1..7 : ~StepHolds(k, Normalised, 0, today_read, employee_df, holiday_data)

C16_FirstNameInLoadOrder ==
    (Cardinality(NamesIn(Normalised)) >= 2 /\ NameStepReached) =>
        LET first == CHOOSE i \in NamesIn(Normalised) : \A j \in NamesIn(Normalised) : i <= j
        IN  /\ answered_by = 8
            /\ matched = first
            /\ last_employee = first
            /\ result = FieldAnswer(first, Normalised)

C16_Witness ==
    /\ answered_by = 8
    /\ Cardinality(NamesIn(Normalised)) >= 2
    /\ \E j \in NamesIn(Normalised) :
          /\ matched < j
          /\ Len(employee_df[matched].Emp_Name) < Len(employee_df[j].Emp_Name)
          /\ result # FieldAnswer(j, Normalised)
    /\ last_employee = matched
    /\ result = FieldAnswer(matched, Normalised)

-----------------------------------------------------------------------------
(* C17: employee_field_response tests the question for the keywords age,   *)
(* gender, salary, designation, email, phone, experience, then 'details'   *)
(* or 'who is', in that order, and answers with the employee's value for   *)
(* the first keyword present: the salary for a question with 'salary' and  *)
(* 'email'.  With no keyword present it answers with the no-answer         *)
(* message.                                                                *)

FieldKeywords ==
    <<{"age"}, {"gender"}, {"salary"}, {"designation"}, {"email"}, {"phone"},
      {"experience"}, {"details", "who is"}>>

FieldSentence(k, row) ==
    CASE k = 1 -> row.Emp_Name \o " is " \o ToString(row.Age) \o " years old."
      [] k = 2 -> row.Emp_Name \o " is " \o row.Gender \o "."
      [] k = 3 -> row.Emp_Name \o "'s salary is " \o ToString(row.Salary) \o "."
      [] k = 4 -> row.Emp_Name \o " works as " \o row.Designation \o "."
      [] k = 5 -> row.Emp_Name \o "'s email is " \o row.Email \o "."
      [] k = 6 -> row.Emp_Name \o "'s phone number is " \o row.Phone_Number \o "."
      [] k = 7 -> row.Emp_Name \o " has " \o ToString(row.Experience_Years)
                    \o " years of experience."
      [] OTHER -> row.Emp_Name \o " is a " \o row.Designation \o " with "
                    \o ToString(row.Experience_Years) \o " years of experience. Salary: "
                    \o ToString(row.Salary) \o "."

\* the fields whose keyword is in q
FieldsAsked(q) == {k \in 1..Len(FieldKeywords) : \E w \in FieldKeywords[k] : Contains(q, w)}

C17_FirstKeywordWins ==
    answered_by \in {7, 8, 9} =>
        LET asked == FieldsAsked(Normalised)
            row == employee_df[last_employee]
        IN  IF asked = {} THEN result = Str(NoAnswer)
            ELSE result = Str(FieldSentence(CHOOSE k \in asked : \A j \in asked : k <= j, row))

C17_Witness ==
    /\ answered_by \in {7, 8, 9}
    /\ {3, 5} \subseteq FieldsAsked(Normalised)
    /\ result = Str(FieldSentence(3, employee_df[last_employee]))

-----------------------------------------------------------------------------
(* C18: when the policy step is reached, the router asks the search for    *)
(* the top 2 passages and returns their texts, joined with newlines,       *)
(* behind the sentinel; when the search finds no chunk the result is the   *)
(* no-answer outcome, which /ask answers like a question that matched      *)
(* nothing: never a bare sentinel, never an error.                         *)

TaggedContext(chunks) ==
    IF Len(chunks) = 1 THEN Str(Sentinel \o chunks[1])
    ELSE Str(Sentinel \o chunks[1] \o "\n" \o chunks[2])

C18_PolicyStep ==
    answered_by = 10 =>
        /\ HasPolicyWord(Normalised)
        /\ Len(found) <= TopK
        /\ found # << >> => result = TaggedContext(found)
        /\ found = << >> =>
              /\ result = NoneResult
              /\ answer = Str(NoAnswer)
              /\ llm_calls = 0

C18_Witness ==
    /\ answered_by = 10
    /\ found = << >>
    /\ result = NoneResult
    /\ answer = Str(NoAnswer)

-----------------------------------------------------------------------------
(* C19: when the amount after the comparison phrase of a salary question   *)
(* is no integer (a decimal such as 50.5, a number with a suffix such as   *)
(* 50k, a word), the salary filter does not match, nothing is raised and   *)
(* the question falls through to the later matchers.  The code takes the   *)
(* leading digits of such an amount as the threshold.                      *)

\* the amounts of q: what stands between a comparison phrase and the next
\* whitespace
AmountsAfterPhrase(q) ==
    {SubSeq(q, SkipSpaces(q, c[1] + Len(ComparisonPhrases[c[2]])),
            TokenEnd(q, SkipSpaces(q, c[1] + Len(ComparisonPhrases[c[2]])))) :
        c \in {d \in (1..Len(q)) \X (1..Len(ComparisonPhrases)) :
                  /\ StartsAt(q, d[1], ComparisonPhrases[d[2]])
                  /\ SkipSpaces(q, d[1] + Len(ComparisonPhrases[d[2]])) <= Len(q)}}

\* a salary question none of whose amounts is an integer
MalformedSalaryQuestion(q) ==
    /\ Contains(q, "salary")
    /\ AmountsAfterPhrase(q) # {}
    /\ \A amount \in AmountsAfterPhrase(q) : ~IntParses(amount)

C19_MalformedAmountFallsThrough ==
    MalformedSalaryQuestion(Normalised) =>
        /\ answered_by # 1
        /\ result.kind # "raise"

\* what does hold: an amount that does not start with a digit falls through
WordAmountFallsThrough ==
    (/\ MalformedSalaryQuestion(Normalised)
     /\ \A amount \in AmountsAfterPhrase(Normalised) : ~IsAsciiDigit(Char(amount, 1))) =>
        answered_by \in 2..11

-----------------------------------------------------------------------------
(* C20: a question that overlaps with no category (no salary comparison,   *)
(* no 'holiday', no holiday name, not the employee-count phrase, no        *)
(* employee ID or name, no pronoun, no policy vocabulary), such as 'what   *)
(* is the weather today', is answered with the no-answer message in every  *)
(* pointer state.  The code looks for the pronouns as substrings: with an  *)
(* employee in the pointer, 'the' or 'weather' makes the pronoun step      *)
(* answer, and a field keyword inside another word ('average') makes it    *)
(* give a field of that employee.                                          *)

NoCategoryOverlap(q) ==
    /\ ~(Contains(q, "salary") /\ Comparisons(q) # {})
    /\ ~Contains(q, "holiday")
    /\ NamedHolidays(q) = {}
    /\ q \notin CountPhrases
    /\ \A i \in 1..Len(split(q)) : ~isdigit(split(q)[i])
    /\ NamesIn(q) = {}
    /\ \A w \in Pronouns : ~WholeWordSearch(w, q)
    /\ ~HasPolicyWord(q)

C20_NoOverlapNoAnswer ==
    (result # NoCall /\ NoCategoryOverlap(Normalised)) => result = Str(NoAnswer)

\* what does hold: the same while the pointer is empty, and for a question
\* with no pronoun inside its words
NoOverlapNoPronounInside ==
    (/\ result # NoCall
     /\ NoCategoryOverlap(Normalised)
     /\ last_employee = 0 \/ \A w \in Pronouns : ~Contains(Normalised, w)) =>
        result = Str(NoAnswer) /\ answered_by = 11

-----------------------------------------------------------------------------
(* C21: what /ask makes of the router's result.                            *)

\* the result with its leading marker taken off
MarkerStripped(text) == SubSeq(text, Len(Sentinel) + 1, Len(text))

StartsWithSentinel(text) ==
    Len(text) >= Len(Sentinel) /\ SubSeq(text, 1, Len(Sentinel)) = Sentinel

\* C21: the /ask handler maps the router's result to the final answer: a
\* non-empty result that does not start with the sentinel "RAG::" is returned
\* unchanged and the language model is not called; a result that starts with
\* the sentinel causes exactly one model call (temperature 0, at most 80 new
\* tokens) on the context with the marker stripped, and the trimmed output is
\* the answer; a missing or empty result yields "Information not available.".
\* The model is called if and only if the result is sentinel-tagged.
C21_AskMapping ==
    (result.kind \in {"str", "None"}) =>
        LET tagged == result.kind = "str" /\ StartsWithSentinel(result.text)
            plain == result.kind = "str" /\ result.text # "" /\ ~tagged
        IN  /\ plain => answer = result /\ llm_calls = 0
            /\ tagged =>
                /\ llm_calls = 1
                /\ llm_args.temperature = 0
                /\ llm_args.max_new_tokens = 80
                /\ llm_args.prompt = Prompt(MarkerStripped(result.text), question)
                /\ generated.kind = "str" => answer = Str(strip(generated.text))
            /\ (~plain /\ ~tagged) => answer = Str(NoAnswer) /\ llm_calls = 0
            /\ llm_calls > 0 <=> tagged

\* a tagged result was formatted by one model call whose output needed trimming
C21_Witness ==
    /\ question = "what is the leave policy"
    /\ result = Str("RAG::Leave: 12 days a year.\nWorking hours: 9 to 6.")
    /\ llm_calls = 1
    /\ generated = Str(" Leave is 12 days a year.\n")
    /\ answer = Str("Leave is 12 days a year.")
    /\ llm_args.prompt = Prompt("Leave: 12 days a year.\nWorking hours: 9 to 6.", question)

-----------------------------------------------------------------------------
(* C22: a failing model call is answered with an apology.                  *)

\* the answer is a text that apologises
IsApology(res) ==
    res.kind = "str" /\ (Contains(lower(res.text), "apolog") \/ Contains(lower(res.text), "sorry"))

\* C22: any failure of the downstream text-generation call is reported to the
\* caller as a valid answer containing apology text rather than propagated as
\* a hard failure; here for the model call that formats a sentinel-tagged
\* router result in /ask.
C22_AskFailureApologises ==
    (llm_calls = 1 /\ generated.kind = "raise") => IsApology(answer)

\* what does hold: TaxChatbot.chat answers a failed model call with its apology
ChatFailureApologises ==
    (request.op = "chat" /\ gemini.kind = "raise") =>
        /\ response.kind = "chat"
        /\ IsApology(Str(response.response))
        /\ response.response = Apology(gemini.text)

-----------------------------------------------------------------------------
(* C23: the rebate under section 87A.                                      *)

\* an amount of whole rupees in the calculator's units
InRupees(units, rupees) == units = rupees * 2500

LesserOf(a, b) == IF a < b THEN a ELSE b

\* C23: in TaxCalculator.calculate_tax, under the new regime every taxable
\* income up to and including 700,000 gets a rebate of min(base tax, 25,000)
\* and ends with total_tax = 0, under the old regime every taxable income up
\* to and including 500,000 gets a rebate of min(base tax, 12,500) and ends
\* with total_tax = 0, and for any income above the regime's threshold the
\* rebate is 0; tax_after_rebate is never negative.
C23_Section87ARebate ==
    request.op = "calculate_tax" =>
        LET income == request.taxable_income
            tax == response.result
            limit == IF request.regime = "new" THEN 700000 ELSE 500000
            cap == IF request.regime = "new" THEN 25000 ELSE 12500
        IN  /\ income <= limit =>
                /\ tax.rebate_87a = LesserOf(tax.base_tax, cap * 2500)
                /\ tax.total_tax = 0
            /\ income > limit => tax.rebate_87a = 0
            /\ tax.tax_after_rebate >= 0

\* the rebate at the new regime's threshold takes the whole tax of 25,000
C23_Witness ==
    /\ request.op = "calculate_tax"
    /\ request.regime = "new"
    /\ request.taxable_income = 700000
    /\ InRupees(response.result.base_tax, 25000)
    /\ InRupees(response.result.rebate_87a, 25000)
    /\ response.result.total_tax = 0

-----------------------------------------------------------------------------
(* C24: one taxable income for the endpoint and the regime recommendation. *)

\* the taxable income TaxCalculator.recommend_regime taxes under a regime
RecommendedTaxable(regime, gross_income, deductions) ==
    LET taxable == IF regime = "old" THEN old_taxable(gross_income, deductions)
                   ELSE new_taxable(gross_income, deductions)
    IN  IF taxable < 0 THEN 0 ELSE taxable

\* the standard deduction once, the itemised deductions under the old regime
TaxableOnce(regime, gross_income, deductions) ==
    LET taxable == gross_income - 50000
                   - (IF regime = "old" THEN Itemised(deductions) ELSE 0)
    IN  IF taxable < 0 THEN 0 ELSE taxable

\* C24: the taxable income computed by the /api/calculate-tax endpoint for a
\* regime equals the taxable income that TaxCalculator.recommend_regime uses
\* for the same regime, gross income and deductions: the 50,000 standard
\* deduction is subtracted exactly once in both regimes, the six itemised
\* deductions reduce taxable income under the old regime, and the result is
\* floored at 0.
C24_SameTaxableIncome ==
    request.op = "/api/calculate-tax" =>
        /\ response.taxable_income =
               RecommendedTaxable(request.regime, request.total_income, request.deductions)
        /\ response.taxable_income =
               TaxableOnce(request.regime, request.total_income, request.deductions)

\* what does hold: the two agree under the new regime when nothing is itemised
TaxableIncomeAgreesWithoutDeductions ==
    (/\ request.op = "/api/calculate-tax"
     /\ request.regime = "new"
     /\ Itemised(request.deductions) = 0) =>
        /\ response.taxable_income =
               RecommendedTaxable("new", request.total_income, request.deductions)
        /\ response.taxable_income =
               TaxableOnce("new", request.total_income, request.deductions)

\* what does hold: recommend_regime subtracts the standard deduction once
RecommendRegimeDeductsOnce ==
    request.op = "/api/recommend-regime" =>
        \A regime \in Regimes :
            RecommendedTaxable(regime, request.gross_income, request.deductions)
                = TaxableOnce(regime, request.gross_income, request.deductions)

-----------------------------------------------------------------------------
(* C25: the form ITRFormSelector.select_form recommends.                   *)

HasInvestmentIncome(income) ==
    \/ income.capital_gains_short > 0
    \/ income.capital_gains_long > 0
    \/ income.rental_income > 0

FormRules(income, profile, recommendation) ==
    /\ recommendation.recommended_form \in {"ITR-1", "ITR-2", "ITR-3"}
    /\ recommendation.recommended_form = "ITR-2" => ~(income.business_income > 0)
    /\ income.business_income > 0 => recommendation.recommended_form = "ITR-3"
    /\ (/\ recommendation.recommended_form = "ITR-1"
        /\ recommendation.alternative_forms = << >>) =>
            /\ income.salary_income > 0
            /\ income.business_income = 0
            /\ income.capital_gains_short = 0
            /\ income.capital_gains_long = 0
            /\ income.rental_income = 0
            /\ profile.taxpayer_category = "Individual"

\* C25: ITRFormSelector.select_form always returns one of ITR-1, ITR-2 or
\* ITR-3; it recommends ITR-2 only to taxpayers without business income and
\* recommends ITR-3 whenever business_income is greater than 0; it recommends
\* ITR-1 with no alternatives only when salary is positive, business, both
\* capital gains and rental income are all 0 and the category is "Individual".
C25_FormSelection ==
    request.op = "/api/recommend-itr-form" =>
        FormRules(request.income, request.profile, response)

\* what does hold: the rules are kept for a taxpayer who does not have both
\* business income and capital gains or rental income
FormSelectionWithoutMixedIncome ==
    (/\ request.op = "/api/recommend-itr-form"
     /\ ~(request.income.business_income > 0 /\ HasInvestmentIncome(request.income))) =>
        FormRules(request.income, request.profile, response)

-----------------------------------------------------------------------------
(* C26: the pointer does not interfere with policy questions.              *)

\* q has policy vocabulary, matches none of the steps 1 to 8 and has none of
\* the pronouns as a whole word
PolicyOnlyQuestion(q) ==
    /\ HasPolicyWord(q)
    /\ \A k \in 1..8 : ~StepHolds(k, q, 0, today_read, employee_df, holiday_data)
    /\ \A w \in {"his", "her", "him", "he", "she"} : ~WholeWordSearch(w, q)

\* the similarity search was made and the call returned what it found
SearchReturned ==
    /\ answered_by = 10
    /\ result = IF found = << >> THEN NoneResult ELSE TaggedContext(found)

\* C26: for a question that contains policy vocabulary, matches none of steps
\* 1 to 8, and contains none of the words his, her, him, he, she as a whole
\* word (for example "what is the leave policy"), the router's outcome is the
\* same whether the pointer is empty or holds an employee: in both states the
\* similarity search is performed and its sentinel-tagged result returned.
C26_PolicyNonInterference ==
    (result # NoCall /\ PolicyOnlyQuestion(Normalised)) => SearchReturned

\* what does hold: the same while the pointer is empty, and for a question
\* with no pronoun inside its words
PolicyNonInterferenceNoPronounInside ==
    (/\ result.kind \in {"str", "None"}
     /\ PolicyOnlyQuestion(Normalised)
     /\ last_employee = 0 \/ \A w \in Pronouns : ~Contains(Normalised, w)) =>
        SearchReturned

\* a policy question with no pronoun inside its words searched while the
\* pointer held an employee
PolicyNonInterferenceReached ==
    /\ question = "leave policy"
    /\ last_employee # 0
    /\ PolicyOnlyQuestion(Normalised)
    /\ SearchReturned
    /\ found # << >>

-----------------------------------------------------------------------------
(* C27: the pointer is set even when the match gives no field.             *)

\* the rows of emps whose name q contains
NamesAmong(q, emps) == {i \in 1..Len(emps) : Contains(q, lower(emps[i].Emp_Name))}

\* q is nothing but the ID of an employee of emps: that employee's row, else 0
OnlyIdOf(q, emps) ==
    IF Len(split(q)) = 1 /\ IntParses(split(q)[1])
    THEN row_with_id(emps, IntOf(split(q)[1]))
    ELSE 0

\* q is nothing but the name of an employee of emps: the first row in load
\* order whose name q contains (the router's rule for names inside names),
\* else 0
OnlyNameOf(q, emps) ==
    IF \E i \in 1..Len(emps) : q = lower(emps[i].Emp_Name)
    THEN CHOOSE i \in NamesAmong(q, emps) : \A j \in NamesAmong(q, emps) : i <= j
    ELSE 0

\* q has a pronoun and matches none of the steps 1 to 8
PronounFollowUpOn(q, now, emps, hols) ==
    /\ \E w \in Pronouns : Contains(q, w)
    /\ \A k \in 1..8 : ~StepHolds(k, q, 0, now, emps, hols)
    /\ \A i \in 1..Len(split(q)) : ~isdigit(split(q)[i])

\* what a question is to the loaded employees and holidays: the employee it
\* consists of (0: none), whether it mentions one by ID or name, and at which
\* clock readings (0: none taken) it is a pronoun follow-up
Reading(asked, emps, hols) ==
    LET q == normalised(asked)
    IN  [only |-> IF OnlyIdOf(q, emps) # 0 THEN OnlyIdOf(q, emps) ELSE OnlyNameOf(q, emps),
         mentions |-> NumericHits(q, emps) # {} \/ NamesAmong(q, emps) # {},
         follow_up |-> {now \in {0} \cup Instants : PronounFollowUpOn(q, now, emps, hols)}]

Readings ==
    [asked \in Questions |-> Reading(asked, LoadedEmployees, LoadedHolidays)] @@ << >>

ReadingOf(asked) ==
    IF /\ employee_df = LoadedEmployees
       /\ holiday_data = LoadedHolidays
       /\ asked \in DOMAIN Readings
    THEN Readings[asked]
    ELSE Reading(asked, employee_df, holiday_data)

FollowUpAfterBareId ==
    /\ prev = [by |-> 7, emp |-> 2]
    /\ question = "what is his salary?"
    /\ result = Str(SalarySentence(employee_df[2]))

\* a question naming an employee was answered by an earlier step and left
\* another employee in the pointer
EarlierStepKeptPointer ==
    /\ question = "asha rao salary above 50000"
    /\ answered_by = 1
    /\ last_employee = 2

-----------------------------------------------------------------------------
(* C28: an ID lookup reads back its own write.                             *)

\* C28: each retrieve_context call runs to completion without interleaving
\* with another request (the /ask handler has no suspension point between
\* calling the router and returning), so even with concurrent sessions the
\* answer of an ID lookup, which reads the shared pointer back after writing
\* it, is always about the employee matched in that same call and never about
\* an employee written by another request in between.
C28_IdLookupReadsOwnWrite ==
    answered_by = 7 =>
        LET row == FirstIdRow(Normalised, employee_df)
        IN  /\ matched = row
            /\ last_employee = row
            /\ result = FieldAnswer(row, Normalised)
            /\ answer = result

\* a session looked an employee up by ID right after another session had
\* written a different employee, and was answered about its own
C28_Witness ==
    /\ session = 2
    /\ question = "101 email"
    /\ answered_by = 7
    /\ own[1] = 2
    /\ own[2] = 1
    /\ last_employee = 1
    /\ result = FieldAnswer(1, Normalised)

-----------------------------------------------------------------------------
(* C29: sessions of the tax chatbot are isolated, and clearing clears.     *)

\* the history of a session: absent and empty are told apart
Stored(dict, session_id) ==
    IF session_id \in DOMAIN dict THEN <<"stored", dict[session_id]>> ELSE <<"absent">>

\* what GET /api/session/{session_id}/history shows
Shown(dict, session_id) == IF session_id \in DOMAIN dict THEN dict[session_id] ELSE << >>

\* C29: TaxChatbot.chat on session s and clear_session(s) change only the
\* history of s and leave every other session's history unchanged; after
\* clear_session(s) the history endpoint for s returns an empty message list,
\* clearing an unknown or already-cleared session returns status "cleared"
\* without error, and a chat after clearing starts a history that contains
\* only the new messages.
C29_SessionIsolation ==
    [][LET s == request'.session_id
       IN  /\ request'.op \in {"chat", "clear"} =>
                \A t \in SessionIds \ {s} :
                    Stored(conversations', t) = Stored(conversations, t)
           /\ request'.op = "clear" =>
                /\ response' = [kind |-> "cleared", status |-> "cleared"]
                /\ Shown(conversations', s) = << >>
           /\ (request'.op = "history" /\ posted'[s] = << >>) =>
                response' = [kind |-> "history", messages |-> << >>]
           /\ (request'.op = "chat" /\ Len(posted'[s]) = 1) =>
                /\ Shown(conversations', s)[1] = Message("user", request'.message)
                /\ \/ Shown(conversations', s) = <<Message("user", request'.message)>>
                   \/ Shown(conversations', s) =
                          <<Message("user", request'.message),
                            Message("assistant", response'.response)>>]_vars

\* a session was cleared and holds no history while another kept its own
C29_Witness ==
    /\ request = Request("clear", "alice", "")
    /\ response = [kind |-> "cleared", status |-> "cleared"]
    /\ "alice" \notin DOMAIN conversations
    /\ posted["alice"] = << >>
    /\ "bob" \in DOMAIN conversations
    /\ Len(conversations["bob"]) >= 2
    /\ chats >= 3

\* a chat after clearing started the history anew
ChatAfterClearing ==
    /\ request.op = "chat"
    /\ chats >= 3
    /\ Len(posted[request.session_id]) = 1
    /\ conversations[request.session_id][1] = Message("user", request.message)

-----------------------------------------------------------------------------
(* C30: what TaxChatbot.chat appends to a history and sends to the model.  *)

IsUserMessage(msg) == msg.role = "user"

\* the contents of the user messages of a history, in order
UserMessages(entries) ==
    LET users == SelectSeq(entries, IsUserMessage)
    IN  [i \in 1..Len(users) |-> users[i].content]

\* the last ten entries of a history
LastTen(entries) ==
    IF Len(entries) <= 10 THEN entries ELSE SubSeq(entries, Len(entries) - 9, Len(entries))

\* the prompt's conversation part for the entries it shows
ConversationShown(entries) ==
    "\n\nConversation so far:\n"
    \o Join([i \in 1..Len(entries) |->
                (IF entries[i].role = "user" THEN "User: " ELSE "Assistant: ")
                \o entries[i].content], "\n")
    \o "\n\nProvide a helpful, accurate response. If you're collecting information, suggest the next logical question."

\* the prompts that show exactly these entries, whatever the context
PromptsShowing(entries) ==
    {SystemPrompt \o "\n\n" \o context_str(context) \o ConversationShown(entries) :
        context \in Contexts}

\* C30: after any sequence of TaxChatbot.chat calls on a session, its history
\* contains every user message of that session in call order; a successful
\* call appends the user message followed by exactly one assistant message,
\* while a call whose model request fails appends only the user message (no
\* assistant entry) and returns the apology response, so the history is not
\* guaranteed to alternate user/assistant; the prompt sent to the model
\* contains only the last 10 history entries.
C30_ChatHistory ==
    [][request'.op = "chat" =>
        LET s == request'.session_id
            before == Shown(conversations, s)
            after == Shown(conversations', s)
            user == Message("user", request'.message)
        IN  /\ UserMessages(after) = posted'[s]
            /\ gemini'.kind = "str" =>
                /\ after = before \o <<user, Message("assistant", gemini'.text)>>
                /\ response'.response = gemini'.text
            /\ gemini'.kind = "raise" =>
                /\ after = before \o <<user>>
                /\ response'.response =
                       "I apologize, but I encountered an error: " \o gemini'.text
                       \o ". Please try again."
            /\ prompt_sent' \in PromptsShowing(LastTen(before \o <<user>>))]_vars

\* the sixth chat of a session failed: its history of eleven entries ends with
\* the user message, and the prompt left the first entry out
C30_Witness ==
    /\ request.op = "chat"
    /\ gemini.kind = "raise"
    /\ IsApology(Str(response.response))
    /\ Len(Shown(conversations, request.session_id)) = 11
    /\ conversations[request.session_id][11] = Message("user", request.message)
    /\ posted[request.session_id][1] = "message 1"
    /\ ~Contains(prompt_sent, "User: message 1\n")
    /\ Contains(prompt_sent, "User: " \o request.message)

\* a history in which two user messages follow each other
HistoryDoesNotAlternate ==
    \E s \in DOMAIN conversations : \E i \in 1..(Len(conversations[s]) - 1) :
        conversations[s][i].role = "user" /\ conversations[s][i + 1].role = "user"

====
